---- MODULE Spec2Model ----
(***************************************************************************)
(* cartograpy: the layer model of the map editor.                          *)
(*                                                                         *)
(* The state is the state of MainWindow, Canvas, Minimap and of the        *)
(* inspector's wx.ListCtrl.  Every handler is one action; a Python         *)
(* exception ends the handler where it is raised and keeps the             *)
(* assignments made before it (wx prints the traceback and the application *)
(* goes on).  numpy's float64 columns are modelled by exact rationals      *)
(* <<numerator, denominator>>.                                             *)
(***************************************************************************)
EXTENDS Integers, Sequences, FiniteSets, TLC

(***************************************************************************)
(* Bounds of the model.                                                    *)
(***************************************************************************)
MaxSteps == 3
MaxLayerSteps == 5
MaxMoveSteps == 6
MaxZoomSteps == 4
MaxDegenerateSteps == 3
MaxSwapSteps == 4
MaxPanSteps == 4
MaxFileSteps == 4
MaxRects == 2
MaxRectSteps == 2
MaxLayers == 3
MaxZoom == 3

(***************************************************************************)
(* Program constants.                                                      *)
(***************************************************************************)
MinimapSize == 400
CanvasW == 640
CanvasH == 480

\* widths and heights of the image files the user can import
ImageSizes == {<<8, 4>>, <<4, 8>>}
\* width and height wx reports for a file that is no image
InvalidSizes == {<<0, 0>>, <<-1, -1>>}
\* mouse deltas of one motion event
Deltas == {<<1, 0>>, <<0, 2>>}
\* mouse positions of a wheel event
Anchors == {<<0, 0>>, <<2, 2>>}

(***************************************************************************)
(* Exact rationals for the float columns of Rects.                         *)
(***************************************************************************)
Abs(a) == IF a < 0 THEN -a ELSE a

RECURSIVE GCD(_, _)
GCD(a, b) == IF b = 0 THEN a ELSE GCD(b, a % b)

Norm(n, d) ==
    LET g == GCD(Abs(n), Abs(d))
        sg == IF d < 0 THEN -1 ELSE 1
    IN  IF n = 0 THEN <<0, 1>> ELSE <<sg * (n \div g), sg * (d \div g)>>

Q(i) == <<i, 1>>
RAdd(a, b) == Norm(a[1] * b[2] + b[1] * a[2], a[2] * b[2])
RNeg(a) == <<-a[1], a[2]>>
RSub(a, b) == RAdd(a, RNeg(b))
RMul(a, b) == Norm(a[1] * b[1], a[2] * b[2])
RDiv(a, b) == Norm(a[1] * b[2], a[2] * b[1])
RLess(a, b) == a[1] * b[2] < b[1] * a[2]
RMin(a, b) == IF RLess(b, a) THEN b ELSE a
RMax(a, b) == IF RLess(a, b) THEN b ELSE a
\* int(): truncation toward zero
RInt(a) == IF a[1] >= 0 THEN a[1] \div a[2] ELSE -((-a[1]) \div a[2])
\* math.ceil()
RCeil(a) == -((-a[1]) \div a[2])

RECURSIVE SeqMin(_)
SeqMin(s) == IF Len(s) = 1 THEN s[1] ELSE RMin(s[1], SeqMin(Tail(s)))
RECURSIVE SeqMax(_)
SeqMax(s) == IF Len(s) = 1 THEN s[1] ELSE RMax(s[1], SeqMax(Tail(s)))

(***************************************************************************)
(* Python sequences: negative indices, insert, delete.                     *)
(***************************************************************************)
\* an index the subscription seq[i] accepts
PyValid(i, n) == -n <= i /\ i < n
\* the 1-based position the Python index i names
PyPos(i, n) == IF i < 0 THEN n + i + 1 ELSE i + 1

InsertAt(s, p, e) == SubSeq(s, 1, p - 1) \o <<e>> \o SubSeq(s, p, Len(s))
DeleteAt(s, p) == SubSeq(s, 1, p - 1) \o SubSeq(s, p + 1, Len(s))

\* list.insert(i, e): the index is clamped, never an error
ListInsert(s, i, e) ==
    LET n == Len(s)
        k == IF i < 0 THEN (IF n + i < 0 THEN 0 ELSE n + i)
                      ELSE (IF i > n THEN n ELSE i)
    IN  InsertAt(s, k + 1, e)

\* del list[i], for a valid i
ListDel(s, i) == DeleteAt(s, PyPos(i, Len(s)))

\* a, b = b, a on list[i], list[j]
ListSwap(s, i, j) ==
    LET p == PyPos(i, Len(s))
        q == PyPos(j, Len(s))
    IN  [k \in 1..Len(s) |-> IF k = p THEN s[q] ELSE IF k = q THEN s[p] ELSE s[k]]

DictSet(d, k, v) == [x \in DOMAIN d \cup {k} |-> IF x = k THEN v ELSE d[x]]
DictDel(d, k) == [x \in DOMAIN d \ {k} |-> d[x]]
DictValues(d) == {d[x] : x \in DOMAIN d}
EmptyDict == [x \in {} |-> 0]

(***************************************************************************)
(* Rect and Rects.                                                         *)
(***************************************************************************)
Rect(x, y, w, h) == [x |-> x, y |-> y, w |-> w, h |-> h]

\* Rect.scale is not part of the sources: width and height times the factor
RectScale(r, f) == Rect(RMul(r.x, f), RMul(r.y, f), RMul(r.w, f), RMul(r.h, f))

RectsAppend(rs, r) == Append(rs, r)

\* np.insert accepts -n..n
RectsInsertValid(rs, i) == -Len(rs) <= i /\ i <= Len(rs)
RectsInsert(rs, i, r) ==
    LET n == Len(rs)
        k == IF i < 0 THEN n + i ELSE i
    IN  InsertAt(rs, k + 1, r)

RectsDelete(rs, i) == DeleteAt(rs, PyPos(i, Len(rs)))

RectsGet(rs, i) == rs[PyPos(i, Len(rs))]

\* a variant that keeps a moved rectangle at non-negative coordinates
RectsMoveClamped(rs, i, dx, dy) ==
    LET p == PyPos(i, Len(rs))
    IN  [rs EXCEPT ![p].x = RMax(Q(0), RAdd(@, Q(dx))),
                   ![p].y = RMax(Q(0), RAdd(@, Q(dy)))]

RectsMove(rs, i, dx, dy) ==
    LET p == PyPos(i, Len(rs))
    IN  [rs EXCEPT ![p].x = RAdd(@, Q(dx)), ![p].y = RAdd(@, Q(dy))]

\* a variant that copies column j to column i and does not copy i to j
RectsSwapOneWay(rs, i, j) ==
    [rs EXCEPT ![PyPos(i, Len(rs))] = rs[PyPos(j, Len(rs))]]

RectsSwap(rs, i, j) == ListSwap(rs, i, j)

(***************************************************************************)
(* The state.                                                              *)
(*   wxAsserts       whether this build of wx raises wxAssertionError for  *)
(*                   an invalid list index (True) or ignores the call      *)
(*   layers, selected            inspector.layers (wx.ListCtrl)            *)
(*   counter, paths, bitmaps, destinations      MainWindow                 *)
(*   canvas_*                    Canvas                                    *)
(*   minimap_*                   Minimap                                   *)
(*   saved, savefile self.saved, and whether self.savefile is a path       *)
(*   closed          the window was closed                                 *)
(*   queue           events posted with wx.PostEvent, not yet handled      *)
(*   err             the exception that ended the last handler, or "none"  *)
(*   steps           number of user inputs so far                          *)
(*   hist            the last user inputs with the state they found        *)
(***************************************************************************)
VARIABLES wxAsserts, layers, selected, counter, paths, bitmaps, destinations,
          canvas_order, canvas_visibility, canvas_paths, canvas_bitmaps,
          canvas_destinations, zoom_level, canvas_scale_factor,
          minimap_order, minimap_visibility, minimap_paths, minimap_bitmaps,
          minimap_destinations, minimap_scale_factor, camera,
          saved, savefile, closed, queue, err, steps, hist

vars == <<wxAsserts, layers, selected, counter, paths, bitmaps, destinations,
          canvas_order, canvas_visibility, canvas_paths, canvas_bitmaps,
          canvas_destinations, zoom_level, canvas_scale_factor,
          minimap_order, minimap_visibility, minimap_paths, minimap_bitmaps,
          minimap_destinations, minimap_scale_factor, camera,
          saved, savefile, closed, queue, err, steps, hist>>

\* the program state as one record, for the statement operators below
Cur ==
    [wxAsserts |-> wxAsserts, layers |-> layers, selected |-> selected,
     counter |-> counter, paths |-> paths, bitmaps |-> bitmaps,
     destinations |-> destinations,
     canvas_order |-> canvas_order, canvas_visibility |-> canvas_visibility,
     canvas_paths |-> canvas_paths, canvas_bitmaps |-> canvas_bitmaps,
     canvas_destinations |-> canvas_destinations, zoom_level |-> zoom_level,
     canvas_scale_factor |-> canvas_scale_factor,
     minimap_order |-> minimap_order, minimap_visibility |-> minimap_visibility,
     minimap_paths |-> minimap_paths, minimap_bitmaps |-> minimap_bitmaps,
     minimap_destinations |-> minimap_destinations,
     minimap_scale_factor |-> minimap_scale_factor, camera |-> camera,
     saved |-> saved, savefile |-> savefile, closed |-> closed,
     queue |-> queue, err |-> err]

Becomes(s) ==
    /\ wxAsserts' = s.wxAsserts
    /\ layers' = s.layers
    /\ selected' = s.selected
    /\ counter' = s.counter
    /\ paths' = s.paths
    /\ bitmaps' = s.bitmaps
    /\ destinations' = s.destinations
    /\ canvas_order' = s.canvas_order
    /\ canvas_visibility' = s.canvas_visibility
    /\ canvas_paths' = s.canvas_paths
    /\ canvas_bitmaps' = s.canvas_bitmaps
    /\ canvas_destinations' = s.canvas_destinations
    /\ zoom_level' = s.zoom_level
    /\ canvas_scale_factor' = s.canvas_scale_factor
    /\ minimap_order' = s.minimap_order
    /\ minimap_visibility' = s.minimap_visibility
    /\ minimap_paths' = s.minimap_paths
    /\ minimap_bitmaps' = s.minimap_bitmaps
    /\ minimap_destinations' = s.minimap_destinations
    /\ minimap_scale_factor' = s.minimap_scale_factor
    /\ camera' = s.camera
    /\ saved' = s.saved
    /\ savefile' = s.savefile
    /\ closed' = s.closed
    /\ queue' = s.queue
    /\ err' = s.err

\* a handler starts
Begin(s) == [s EXCEPT !.err = "none"]
Ok(s) == s.err = "none"
Raise(s, e) == [s EXCEPT !.err = e]

\* wx.PostEvent
PostEvent(s, e) == IF Ok(s) THEN [s EXCEPT !.queue = Append(@, e)] ELSE s

(***************************************************************************)
(* wx.ListCtrl with check boxes and single selection.  An item is its item *)
(* data and its check box; selected is GetFirstSelected(), -1 for none.    *)
(* A call with an invalid index raises wxAssertionError or does nothing,   *)
(* depending on the build.                                                 *)
(***************************************************************************)
Item(data, checked) == [data |-> data, checked |-> checked]

LcValid(s, i) == 0 <= i /\ i < Len(s.layers)

LcInvalid(s) == IF s.wxAsserts THEN Raise(s, "wxAssertionError") ELSE s

\* GetItemData(i) and GetItem(i): 0 for an index the build does not reject
LcItemData(s, i) == IF LcValid(s, i) THEN s.layers[i + 1].data ELSE 0

\* the statement "x = GetItemData(i)" or "item = GetItem(i)"
LcGet(s, i) == IF ~Ok(s) \/ LcValid(s, i) THEN s ELSE LcInvalid(s)

\* InsertItem: the position is clamped to the item count, the new item is
\* neither checked nor selected and the selection stays on its item
LcInsertItem(s, i, data) ==
    IF ~Ok(s) THEN s
    ELSE IF i < 0 THEN LcInvalid(s)
    ELSE LET k == IF i > Len(s.layers) THEN Len(s.layers) ELSE i
         IN  [s EXCEPT !.layers = InsertAt(@, k + 1, Item(data, FALSE)),
                       !.selected = IF @ >= k THEN @ + 1 ELSE @]

LcSetItemData(s, i, data) ==
    IF ~Ok(s) THEN s
    ELSE IF ~LcValid(s, i) THEN LcInvalid(s)
    ELSE [s EXCEPT !.layers[i + 1].data = data]

LcDeleteItem(s, i) ==
    IF ~Ok(s) THEN s
    ELSE IF ~LcValid(s, i) THEN LcInvalid(s)
    ELSE [s EXCEPT !.layers = DeleteAt(@, i + 1),
                   !.selected = IF @ = i THEN -1 ELSE IF @ > i THEN @ - 1 ELSE @]

LcSelect(s, i) ==
    IF ~Ok(s) THEN s
    ELSE IF ~LcValid(s, i) THEN LcInvalid(s)
    ELSE [s EXCEPT !.selected = i]

\* Inspector.__on_list_item_checked: the handler of EVT_LIST_ITEM_CHECKED
\* and EVT_LIST_ITEM_UNCHECKED
OnListItemChecked(s) == PostEvent(s, [type |-> "UpdateVisibility"])

\* CheckItem(i): checks the box; the control sends EVT_LIST_ITEM_CHECKED,
\* which the inspector handles before CheckItem returns
LcCheckItem(s, i) ==
    IF ~Ok(s) THEN s
    ELSE IF ~LcValid(s, i) THEN LcInvalid(s)
    ELSE OnListItemChecked([s EXCEPT !.layers[i + 1].checked = TRUE])

(***************************************************************************)
(* Statements on the fields of the state record: each does nothing once an *)
(* exception is pending, and raises what Python or numpy raises.           *)
(***************************************************************************)
\* a variant that puts e in front
PrependStmt(s, f, e) == IF ~Ok(s) THEN s ELSE [s EXCEPT ![f] = <<e>> \o @]

\* f.append(e)
AppendStmt(s, f, e) == IF ~Ok(s) THEN s ELSE [s EXCEPT ![f] = Append(@, e)]

\* f.insert(i, e) on a list
ListInsertStmt(s, f, i, e) ==
    IF ~Ok(s) THEN s ELSE [s EXCEPT ![f] = ListInsert(@, i, e)]

\* del f[i] on a list
ListDelStmt(s, f, i) ==
    IF ~Ok(s) THEN s
    ELSE IF ~PyValid(i, Len(s[f])) THEN Raise(s, "IndexError")
    ELSE [s EXCEPT ![f] = ListDel(@, i)]

\* f[i], f[j] = f[j], f[i] on a list
ListSwapStmt(s, f, i, j) ==
    IF ~Ok(s) THEN s
    ELSE IF ~PyValid(i, Len(s[f])) \/ ~PyValid(j, Len(s[f])) THEN Raise(s, "IndexError")
    ELSE [s EXCEPT ![f] = ListSwap(@, i, j)]

\* f[i] = not f[i]
ListToggleStmt(s, f, i) ==
    IF ~Ok(s) THEN s
    ELSE IF ~PyValid(i, Len(s[f])) THEN Raise(s, "IndexError")
    ELSE [s EXCEPT ![f][PyPos(i, Len(s[f]))] = ~@]

\* f[k] = v on a dict
DictSetStmt(s, f, k, v) == IF ~Ok(s) THEN s ELSE [s EXCEPT ![f] = DictSet(@, k, v)]

\* del f[k] on a dict
DictDelStmt(s, f, k) ==
    IF ~Ok(s) THEN s
    ELSE IF k \notin DOMAIN s[f] THEN Raise(s, "KeyError")
    ELSE [s EXCEPT ![f] = DictDel(@, k)]

\* f.append(rect), f.insert(index, rect), f.delete(index), f.move(index, dx, dy)
\* on a Rects
RectsAppendStmt(s, f, r) == IF ~Ok(s) THEN s ELSE [s EXCEPT ![f] = RectsAppend(@, r)]

RectsInsertStmt(s, f, i, r) ==
    IF ~Ok(s) THEN s
    ELSE IF ~RectsInsertValid(s[f], i) THEN Raise(s, "IndexError")
    ELSE [s EXCEPT ![f] = RectsInsert(@, i, r)]

RectsDeleteStmt(s, f, i) ==
    IF ~Ok(s) THEN s
    ELSE IF ~PyValid(i, Len(s[f])) THEN Raise(s, "IndexError")
    ELSE [s EXCEPT ![f] = RectsDelete(@, i)]

RectsMoveStmt(s, f, i, dx, dy) ==
    IF ~Ok(s) THEN s
    ELSE IF ~PyValid(i, Len(s[f])) THEN Raise(s, "IndexError")
    ELSE [s EXCEPT ![f] = RectsMove(@, i, dx, dy)]

\* f.rects[:,[i,j]] = f.rects[:,[j,i]]
RectsSwapStmt(s, f, i, j) ==
    IF ~Ok(s) THEN s
    ELSE IF ~PyValid(i, Len(s[f])) \/ ~PyValid(j, Len(s[f])) THEN Raise(s, "IndexError")
    ELSE [s EXCEPT ![f] = RectsSwap(@, i, j)]

(***************************************************************************)
(* Canvas.scale_factor and Canvas.zoom are not part of the sources; they   *)
(* follow the description of the view transform: the factor is 1 at level  *)
(* 0, |z| + 1 above and 1 / (|z| + 1) below.                               *)
(***************************************************************************)
ScaleFactor(z) == IF z = 0 THEN Q(1) ELSE IF z > 0 THEN <<z + 1, 1>> ELSE <<1, 1 - z>>

CanvasZoom(s, dz) ==
    IF ~Ok(s) THEN s
    ELSE [s EXCEPT !.zoom_level = @ + dz,
                   !.canvas_scale_factor = ScaleFactor(s.zoom_level + dz)]

\* MainWindow.__scale: the size of the scaled bitmap
ScaleBitmap(size, scale) == <<RInt(RMul(Q(size[1]), scale)), RInt(RMul(Q(size[2]), scale))>>

\* ConvertToImage() of a bitmap that is not valid and Scale() to a width or
\* height below 1 fail a check of wx: wxAssertionError on a build that
\* raises it, an invalid bitmap otherwise
ScaleFails(size, scale) ==
    \/ size[1] <= 0
    \/ size[2] <= 0
    \/ RInt(RMul(Q(size[1]), scale)) <= 0
    \/ RInt(RMul(Q(size[2]), scale)) <= 0

\* f[key] = self.__scale(bitmap, scale)
ScaleStmt(s, f, key, size, scale) ==
    IF ~Ok(s) THEN s
    ELSE IF s.wxAsserts /\ ScaleFails(size, scale) THEN Raise(s, "wxAssertionError")
    ELSE [s EXCEPT ![f] = DictSet(@, key, ScaleBitmap(size, scale))]

(***************************************************************************)
(* MainWindow.__update_minimap                                             *)
(***************************************************************************)
\* x_min, y_min, w_max and h_max of the canvas rectangles
BBoxFrom(x_min, y_min, right, bottom) ==
    [x_min |-> x_min, y_min |-> y_min,
     w_max |-> RSub(right, x_min), h_max |-> RSub(bottom, y_min)]

BBox(cd) ==
    BBoxFrom(SeqMin([k \in 1..Len(cd) |-> cd[k].x]),
             SeqMin([k \in 1..Len(cd) |-> cd[k].y]),
             SeqMax([k \in 1..Len(cd) |-> RAdd(cd[k].x, cd[k].w)]),
             SeqMax([k \in 1..Len(cd) |-> RAdd(cd[k].y, cd[k].h)]))

\* a variant that fits the smaller side of the bounding box
FactorMax(b) == RMax(RDiv(Q(MinimapSize), b.w_max), RDiv(Q(MinimapSize), b.h_max))

\* factor = min(w_minimap / w_max, h_minimap / h_max)
Factor(b) == RMin(RDiv(Q(MinimapSize), b.w_max), RDiv(Q(MinimapSize), b.h_max))

FitFactor(cd) == Factor(BBox(cd))

\* the float64 values that are no numbers: a division by 0.0 gives inf (the
\* pair 1/0 that RDiv returns), and 0 * inf gives nan
Inf == <<1, 0>>
NegInf == <<-1, 0>>
NaN == <<0, 0>>
Finite(a) == a[2] # 0

\* a * factor in float64, a finite
FMul(a, factor) ==
    IF Finite(factor) THEN RMul(a, factor)
    ELSE IF a[1] = 0 THEN NaN
    ELSE IF (a[1] > 0) = (factor[1] > 0) THEN Inf
    ELSE NegInf

\* a variant that scales without moving the bounding box to the origin
ProjectUnshifted(cd, b, factor) ==
    [k \in 1..Len(cd) |->
        Rect(FMul(cd[k].x, factor),
             FMul(cd[k].y, factor),
             FMul(cd[k].w, factor),
             FMul(cd[k].h, factor))]

ProjectWith(cd, b, factor) ==
    [k \in 1..Len(cd) |->
        Rect(FMul(RSub(cd[k].x, b.x_min), factor),
             FMul(RSub(cd[k].y, b.y_min), factor),
             FMul(cd[k].w, factor),
             FMul(cd[k].h, factor))]

Project(cd) == ProjectWith(cd, BBox(cd), FitFactor(cd))

\* a variant that leaves the camera at the origin of the minimap
CameraAtOrigin(b, factor) ==
    [x |-> 0,
     y |-> 0,
     w |-> RInt(RMul(Q(CanvasW), factor)),
     h |-> RInt(RMul(Q(CanvasH), factor))]

CameraWith(b, factor) ==
    [x |-> RInt(RMul(RNeg(b.x_min), factor)),
     y |-> RInt(RMul(RNeg(b.y_min), factor)),
     w |-> RInt(RMul(Q(CanvasW), factor)),
     h |-> RInt(RMul(Q(CanvasH), factor))]

CameraOf(cd) == CameraWith(BBox(cd), FitFactor(cd))

\* the four rows of minimap.destinations.rects: a row of n values assigned
\* to a row of m values; one value is broadcast
Broadcast(proj, m) == [k \in 1..m |-> IF Len(proj) = m THEN proj[k] ELSE proj[1]]

\* every bitmap of the main window scaled into the cache
ScaleAll(cache, bmps, factor) ==
    [q \in DOMAIN cache \cup DOMAIN bmps |->
        IF q \in DOMAIN bmps THEN ScaleBitmap(bmps[q], factor) ELSE cache[q]]

\* the bitmaps of the main window are visited in the order of insertion,
\* which is the order of their keys; the first one that cannot be scaled
\* ends the loop on a build that raises
Failing(bmps, factor) == {q \in DOMAIN bmps : ScaleFails(bmps[q], factor)}

FirstFailing(bmps, factor) ==
    CHOOSE q \in Failing(bmps, factor) : \A r \in Failing(bmps, factor) : q <= r

ScaleBefore(cache, bmps, factor, stop) ==
    [q \in DOMAIN cache \cup {r \in DOMAIN bmps : r < stop} |->
        IF q \in DOMAIN bmps /\ q < stop THEN ScaleBitmap(bmps[q], factor)
        ELSE cache[q]]

\* for path, bitmap in self.bitmaps.items(): f[path] = self.__scale(bitmap, factor)
ScaleAllStmt(s, f, factor) ==
    IF ~Ok(s) THEN s
    ELSE IF s.wxAsserts /\ Failing(s.bitmaps, factor) # {}
    THEN Raise([s EXCEPT ![f] = ScaleBefore(@, s.bitmaps, factor,
                                            FirstFailing(s.bitmaps, factor))],
               "wxAssertionError")
    ELSE [s EXCEPT ![f] = ScaleAll(@, s.bitmaps, factor)]

\* a variant that regenerates the bitmaps when the factor changed or when
\* the caller asks for it
ResizeMinimapOnChange(s, resize, factor) ==
    IF ~resize /\ s.minimap_scale_factor = factor THEN s
    ELSE ScaleAllStmt([s EXCEPT !.minimap_scale_factor = factor],
                      "minimap_bitmaps", factor)

\* if not resize or self.inspector.minimap.scale_factor == factor: return
ResizeMinimap(s, resize, factor) ==
    IF ~resize \/ s.minimap_scale_factor = factor THEN s
    ELSE ScaleAllStmt([s EXCEPT !.minimap_scale_factor = factor],
                      "minimap_bitmaps", factor)

UpdateMinimap(s, resize) ==
    IF ~Ok(s) THEN s
    \* min() of an empty array
    ELSE IF Len(s.canvas_destinations) = 0 THEN Raise(s, "ValueError")
    ELSE IF /\ Len(s.canvas_destinations) # Len(s.minimap_destinations)
            /\ Len(s.canvas_destinations) # 1
         THEN Raise(s, "ValueError")
    \* w_max and h_max are both 0.0: the factor is inf, the four rows are
    \* stored, and int() of nan or of an infinity raises at camera.x
    ELSE IF ~Finite(FitFactor(s.canvas_destinations))
         THEN Raise([s EXCEPT !.minimap_destinations =
                         Broadcast(Project(s.canvas_destinations), Len(@))],
                    IF BBox(s.canvas_destinations).x_min = Q(0)
                    THEN "ValueError" ELSE "OverflowError")
    ELSE ResizeMinimap(
            [s EXCEPT !.minimap_destinations =
                          Broadcast(Project(s.canvas_destinations), Len(@)),
                      !.camera = CameraOf(s.canvas_destinations)],
            resize, FitFactor(s.canvas_destinations))

(***************************************************************************)
(* MainWindow.__on_layer_add                                               *)
(***************************************************************************)
\* a variant that numbers a new layer by the number of layers
NewIdByCount(s) == Len(s.canvas_order)

\* the id of a new layer: self.counter
NewId(s) == s.counter

\* self.counter += 1
Bump(s) == IF Ok(s) THEN [s EXCEPT !.counter = @ + 1] ELSE s

\* bitmap.GetWidth() and bitmap.GetHeight(): for a file that is no image the
\* bitmap is not valid, and the port either answers 0 without a check or
\* fails a check of wx and answers -1
GetSizeStmt(s, size) ==
    IF Ok(s) /\ s.wxAsserts /\ size[1] < 0 THEN Raise(s, "wxAssertionError") ELSE s

OnLayerAdd(s0, size) ==
    LET s == GetSizeStmt(Begin(s0), size)
        id == NewId(s)
        \* the image is copied to the temporary file named after the counter
        temp_file == id
        destination == Rect(Q(0), Q(0), Q(size[1]), Q(size[2]))
        a1 == DictSetStmt(s, "paths", id, temp_file)
        a2 == DictSetStmt(a1, "bitmaps", temp_file, size)
        a3 == RectsAppendStmt(a2, "destinations", destination)
        c1 == AppendStmt(a3, "canvas_order", id)
        c2 == AppendStmt(c1, "canvas_visibility", FALSE)
        c3 == DictSetStmt(c2, "canvas_paths", id, temp_file)
        c4 == ScaleStmt(c3, "canvas_bitmaps", temp_file, size, s.canvas_scale_factor)
        c5 == RectsAppendStmt(c4, "canvas_destinations",
                              RectScale(destination, s.canvas_scale_factor))
        m1 == AppendStmt(c5, "minimap_order", id)
        m2 == AppendStmt(m1, "minimap_visibility", FALSE)
        m3 == DictSetStmt(m2, "minimap_paths", id, temp_file)
        m4 == DictSetStmt(m3, "minimap_bitmaps", temp_file, size)
        m5 == RectsAppendStmt(m4, "minimap_destinations", destination)
        m6 == UpdateMinimap(m5, TRUE)
        i1 == LcInsertItem(m6, 0, 0)
        i2 == LcSetItemData(i1, 0, id)
        i3 == LcCheckItem(i2, 0)
        i4 == LcSelect(i3, 0)
    IN  Bump(i4)

(***************************************************************************)
(* MainWindow.__on_layer_duplicate                                         *)
(***************************************************************************)
\* index = -(selected + 1)
MirrorIndex(sel) == -(sel + 1)

OnLayerDuplicate(s0) ==
    LET s == Begin(s0)
        sel == s.selected
        g1 == LcGet(s, sel)
        selected_data == LcItemData(s, sel)
        index == MirrorIndex(sel)
        id == NewId(s)
    IN  IF ~Ok(g1) THEN g1
        ELSE IF selected_data \notin DOMAIN s.canvas_paths THEN Raise(s, "KeyError")
        \* self.canvas.destinations[selected_data]: subscripted with the item data
        ELSE IF ~PyValid(selected_data, Len(s.canvas_destinations))
             THEN Raise(s, "IndexError")
        ELSE
        LET path == s.canvas_paths[selected_data]
            destination == RectsGet(s.canvas_destinations, selected_data)
            a1 == DictSetStmt(s, "paths", id, path)
            a2 == RectsInsertStmt(a1, "destinations", index, destination)
            c1 == ListInsertStmt(a2, "canvas_order", index, id)
            c2 == ListInsertStmt(c1, "canvas_visibility", index, FALSE)
            c3 == DictSetStmt(c2, "canvas_paths", id, path)
            c4 == RectsInsertStmt(c3, "canvas_destinations", index, destination)
            m1 == ListInsertStmt(c4, "minimap_order", index, id)
            m2 == ListInsertStmt(m1, "minimap_visibility", index, FALSE)
            m3 == DictSetStmt(m2, "minimap_paths", id, path)
            m4 == RectsInsertStmt(m3, "minimap_destinations", index, destination)
            m5 == UpdateMinimap(m4, TRUE)
            i1 == LcInsertItem(m5, sel, 0)
            i2 == LcSetItemData(i1, sel, id)
            i3 == LcCheckItem(i2, sel)
            i4 == LcSelect(i3, sel)
        IN  Bump(i4)

(***************************************************************************)
(* MainWindow.__on_layer_remove.  Minimap.delete is not part of the        *)
(* sources; it deletes the minimap rectangle at the index, as the other    *)
(* three deletions of the handler do.                                      *)
(***************************************************************************)
MinimapDelete(s, index) == RectsDeleteStmt(s, "minimap_destinations", index)

\* if path not in self.paths.values(): the bitmap is evicted from the caches
Evict(s, path) ==
    IF ~Ok(s) \/ path \in DictValues(s.paths) THEN s
    ELSE DictDelStmt(DictDelStmt(DictDelStmt(s, "bitmaps", path),
                                 "minimap_bitmaps", path),
                     "canvas_bitmaps", path)

OnLayerRemove(s0) ==
    LET s == Begin(s0)
        sel == s.selected
        g1 == LcGet(s, sel)
        item_data == LcItemData(s, sel)
        index == MirrorIndex(sel)
    IN  IF ~Ok(g1) THEN g1
        ELSE IF item_data \notin DOMAIN s.paths THEN Raise(s, "KeyError")
        ELSE
        LET path == s.paths[item_data]
            a1 == DictDelStmt(s, "paths", item_data)
            a2 == RectsDeleteStmt(a1, "destinations", index)
            i1 == LcDeleteItem(a2, sel)
            i2 == LcSelect(i1, sel)
            c1 == ListDelStmt(i2, "canvas_order", index)
            c2 == ListDelStmt(c1, "canvas_visibility", index)
            c3 == DictDelStmt(c2, "canvas_paths", item_data)
            c4 == RectsDeleteStmt(c3, "canvas_destinations", index)
            m1 == ListDelStmt(c4, "minimap_order", index)
            m2 == ListDelStmt(m1, "minimap_visibility", index)
            m3 == DictDelStmt(m2, "minimap_paths", item_data)
            m4 == MinimapDelete(m3, index)
            e1 == Evict(m4, path)
        IN  UpdateMinimap(e1, TRUE)

(***************************************************************************)
(* MainWindow.__on_swap_layer and MainWindow.__on_update_visibility        *)
(***************************************************************************)
\* a variant that swaps in the canvas alone
OnSwapLayerCanvasOnly(s0, e) ==
    LET s == Begin(s0)
        i == MirrorIndex(e.i)
        j == MirrorIndex(e.j)
        c1 == ListSwapStmt(s, "canvas_order", i, j)
        c2 == ListSwapStmt(c1, "canvas_visibility", i, j)
    IN  RectsSwapStmt(c2, "canvas_destinations", i, j)

OnSwapLayer(s0, e) ==
    LET s == Begin(s0)
        i == MirrorIndex(e.i)
        j == MirrorIndex(e.j)
        c1 == ListSwapStmt(s, "canvas_order", i, j)
        c2 == ListSwapStmt(c1, "canvas_visibility", i, j)
        c3 == RectsSwapStmt(c2, "canvas_destinations", i, j)
        m1 == ListSwapStmt(c3, "minimap_order", i, j)
        m2 == ListSwapStmt(m1, "minimap_visibility", i, j)
    IN  RectsSwapStmt(m2, "minimap_destinations", i, j)

OnUpdateVisibility(s0) ==
    LET s == Begin(s0)
        index == MirrorIndex(s.selected)
        c1 == ListToggleStmt(s, "canvas_visibility", index)
    IN  ListToggleStmt(c1, "minimap_visibility", index)

(***************************************************************************)
(* Inspector.__on_layer_backward and Inspector.__on_layer_forward          *)
(***************************************************************************)
\* if selected < n_layers
BackwardGuard(sel, n_layers) == sel < n_layers

\* a variant that also moves the first item forward
ForwardGuardFromZero(sel) == sel >= 0

\* if selected > 0
ForwardGuard(sel) == sel > 0

\* a variant that selects the position the item had, not the item
MoveItemKeepIndex(s, sel, new_index) ==
    LET g1 == LcGet(s, sel)
        data == LcItemData(s, sel)
        i1 == LcDeleteItem(g1, sel)
        i2 == LcInsertItem(i1, new_index, data)
        i3 == LcCheckItem(i2, new_index)
        i4 == LcSelect(i3, sel)
    IN  PostEvent(i4, [type |-> "SwapLayer", i |-> sel, j |-> new_index])

\* the body the two handlers share: the item is taken out of the list,
\* inserted at new_index, checked and selected, and the swap is posted
MoveItem(s, sel, new_index) ==
    LET g1 == LcGet(s, sel)
        data == LcItemData(s, sel)
        i1 == LcDeleteItem(g1, sel)
        i2 == LcInsertItem(i1, new_index, data)
        i3 == LcCheckItem(i2, new_index)
        i4 == LcSelect(i3, new_index)
    IN  PostEvent(i4, [type |-> "SwapLayer", i |-> sel, j |-> new_index])

OnLayerBackward(s0) ==
    LET s == Begin(s0)
    IN  IF BackwardGuard(s.selected, Len(s.layers))
        THEN MoveItem(s, s.selected, s.selected + 1)
        ELSE s

OnLayerForward(s0) ==
    LET s == Begin(s0)
    IN  IF ForwardGuard(s.selected)
        THEN MoveItem(s, s.selected, s.selected - 1)
        ELSE s

(***************************************************************************)
(* MainWindow.__on_motion, Canvas.__on_motion, MainWindow.__on_key_down    *)
(***************************************************************************)
\* the left button is down: the selected layer is moved
OnMotionLeft(s0, dx, dy) ==
    LET s == Begin(s0)
        index == MirrorIndex(s.selected)
        c1 == RectsMoveStmt(s, "canvas_destinations", index, dx, dy)
    IN  UpdateMinimap(c1, FALSE)

\* for i in range(n): self.canvas.destinations.move(index=i, dx=dx, dy=dy)
MoveFirst(cd, n, dx, dy) ==
    [p \in 1..Len(cd) |->
        IF p <= n THEN [cd[p] EXCEPT !.x = RAdd(@, Q(dx)), !.y = RAdd(@, Q(dy))]
        ELSE cd[p]]

MoveAll(s, n, dx, dy) ==
    IF ~Ok(s) THEN s
    ELSE IF n > Len(s.canvas_destinations)
         THEN Raise([s EXCEPT !.canvas_destinations = MoveFirst(@, n, dx, dy)],
                    "IndexError")
    ELSE [s EXCEPT !.canvas_destinations = MoveFirst(@, n, dx, dy)]

\* the middle button is down: the camera is panned; the loop runs over the
\* length of the main window's destinations
OnMotionMiddle(s0, dx, dy) ==
    LET s == Begin(s0)
        c1 == MoveAll(s, Len(s.destinations), dx, dy)
    IN  UpdateMinimap(c1, FALSE)

\* Canvas.__on_motion with the middle button down; the UpdateCameraEvent it
\* posts has no handler
CanvasOnMotionMiddle(s0, dx, dy) ==
    LET s == Begin(s0)
    IN  MoveAll(s, Len(s.canvas_destinations), dx, dy)

Keys == {"LEFT", "UP", "RIGHT", "DOWN"}

OnKeyDown(s0, keycode) ==
    LET s == Begin(s0)
        index == MirrorIndex(s.selected)
        d == RCeil(s.canvas_scale_factor)
        dx == IF keycode = "LEFT" THEN -d ELSE IF keycode = "RIGHT" THEN d ELSE 0
        dy == IF keycode = "UP" THEN -d ELSE IF keycode = "DOWN" THEN d ELSE 0
    IN  RectsMoveStmt(s, "canvas_destinations", index, dx, dy)

(***************************************************************************)
(* MainWindow.__on_mousewheel                                              *)
(***************************************************************************)
\* x' = x_mouse - (new / old) * (x_mouse - x)
ZoomAbout(anchor, ratio, v) == RSub(Q(anchor), RMul(ratio, RSub(Q(anchor), v)))

\* rects[0] and rects[1]
ZoomXY(cd, x, y, ratio) ==
    [k \in 1..Len(cd) |-> [cd[k] EXCEPT !.x = ZoomAbout(x, ratio, @),
                                        !.y = ZoomAbout(y, ratio, @)]]

\* rects[2] and rects[3]: the unscaled sizes times the factor; a single
\* unscaled size is broadcast
ZoomWH(cd, unscaled, factor) ==
    [k \in 1..Len(cd) |->
        [cd[k] EXCEPT
            !.w = RMul(unscaled[IF Len(unscaled) = Len(cd) THEN k ELSE 1].w, factor),
            !.h = RMul(unscaled[IF Len(unscaled) = Len(cd) THEN k ELSE 1].h, factor)]]

Rescale(s, old_factor, x, y) ==
    IF /\ Len(s.destinations) # Len(s.canvas_destinations)
       /\ Len(s.destinations) # 1
    THEN Raise([s EXCEPT !.canvas_destinations =
                    ZoomXY(@, x, y, RDiv(s.canvas_scale_factor, old_factor))],
               "ValueError")
    ELSE ScaleAllStmt(
            [s EXCEPT !.canvas_destinations =
                          ZoomWH(ZoomXY(@, x, y, RDiv(s.canvas_scale_factor, old_factor)),
                                 s.destinations, s.canvas_scale_factor)],
            "canvas_bitmaps", s.canvas_scale_factor)

\* a variant that zooms in whichever way the wheel turns
OnMousewheelInOnly(s0, rotation, x, y) ==
    UpdateMinimap(
        Rescale(IF rotation # 0 THEN CanvasZoom(Begin(s0), 1) ELSE Begin(s0),
                s0.canvas_scale_factor, x, y),
        TRUE)

OnMousewheel(s0, rotation, x, y) ==
    UpdateMinimap(
        Rescale(IF rotation > 0 THEN CanvasZoom(Begin(s0), 1)
                ELSE IF rotation < 0 THEN CanvasZoom(Begin(s0), -1)
                ELSE Begin(s0),
                s0.canvas_scale_factor, x, y),
        TRUE)

(***************************************************************************)
(* The handler of a posted event.                                          *)
(***************************************************************************)
Handle(s, e) ==
    IF e.type = "SwapLayer" THEN OnSwapLayer(s, e) ELSE OnUpdateVisibility(s)

(***************************************************************************)
(* The file menu: MainWindow.reset, __continue, __save, __save_dialog and  *)
(* the handlers of New, Quit, Save and Save as.                            *)
(***************************************************************************)
\* MainWindow.reset: canvas, inspector and the main window's own fields
Reset(s) ==
    IF ~Ok(s) THEN s
    ELSE [s EXCEPT !.layers = <<>>, !.selected = -1,
                   !.counter = 0, !.paths = EmptyDict, !.bitmaps = EmptyDict,
                   !.destinations = <<>>,
                   !.canvas_order = <<>>, !.canvas_visibility = <<>>,
                   !.canvas_paths = EmptyDict, !.canvas_bitmaps = EmptyDict,
                   !.canvas_destinations = <<>>,
                   !.zoom_level = 0, !.canvas_scale_factor = Q(1),
                   !.minimap_order = <<>>, !.minimap_visibility = <<>>,
                   !.minimap_paths = EmptyDict, !.minimap_bitmaps = EmptyDict,
                   !.minimap_destinations = <<>>,
                   !.minimap_scale_factor = Q(1),
                   !.camera = [x |-> 0, y |-> 0, w |-> 400, h |-> 400],
                   !.saved = FALSE, !.savefile = FALSE]

\* self.Close()
Close(s) == IF Ok(s) THEN [s EXCEPT !.closed = TRUE] ELSE s

\* what a call of __continue returns: the answer to the message box when the
\* map is not saved, True when it is saved
Continue(s, answer) == IF ~s.saved THEN answer # "no" ELSE TRUE

\* the condition the handlers test: self.__continue without a call is the
\* bound method, and a bound method is true
ContinueMethod(s, answer) == TRUE

\* if not self.__continue: return
OnMenubarFileNew(s0, answer) ==
    LET s == Begin(s0)
    IN  IF ~ContinueMethod(s, answer) THEN s ELSE Reset(s)

\* if self.__continue: self.Close()
OnMenubarFileQuit(s0, answer) ==
    LET s == Begin(s0)
    IN  IF ContinueMethod(s, answer) THEN Close(s) ELSE s

\* __save_dialog: the path of the dialog, or nothing on cancel
SaveDialog(s, chosen) ==
    IF Ok(s) /\ chosen THEN [s EXCEPT !.savefile = TRUE] ELSE s

\* __save: make_archive(base_name=None) raises TypeError
Save(s) ==
    IF ~Ok(s) THEN s
    ELSE IF ~s.savefile THEN Raise(s, "TypeError")
    ELSE [s EXCEPT !.saved = TRUE]

OnMenubarFileSave(s0, chosen) ==
    LET s == Begin(s0)
        d == IF ~s.savefile THEN SaveDialog(s, chosen) ELSE s
    IN  IF ~d.saved THEN Save(d) ELSE d

OnMenubarFileSaveAs(s0, chosen) ==
    LET s == Begin(s0)
    IN  Save(SaveDialog(s, chosen))

(***************************************************************************)
(* Init: MainWindow.reset, Canvas.__init__, Minimap.reset                  *)
(***************************************************************************)
NoHist == <<>>

Init ==
    /\ wxAsserts \in BOOLEAN
    /\ layers = <<>>
    /\ selected = -1
    /\ counter = 0
    /\ paths = EmptyDict
    /\ bitmaps = EmptyDict
    /\ destinations = <<>>
    /\ canvas_order = <<>>
    /\ canvas_visibility = <<>>
    /\ canvas_paths = EmptyDict
    /\ canvas_bitmaps = EmptyDict
    /\ canvas_destinations = <<>>
    /\ zoom_level = 0
    /\ canvas_scale_factor = Q(1)
    /\ minimap_order = <<>>
    /\ minimap_visibility = <<>>
    /\ minimap_paths = EmptyDict
    /\ minimap_bitmaps = EmptyDict
    /\ minimap_destinations = <<>>
    /\ minimap_scale_factor = Q(1)
    /\ camera = [x |-> 0, y |-> 0, w |-> 400, h |-> 400]
    /\ saved = FALSE
    /\ savefile = FALSE
    /\ closed = FALSE
    /\ queue = <<>>
    /\ err = "none"
    /\ steps = 0
    /\ hist = NoHist

(***************************************************************************)
(* Actions.  The user acts when no posted event is pending; a posted event *)
(* is handled in the order of posting.  hist keeps, newest first, the last *)
(* inputs: the handler, what the event carried, the state the handler      *)
(* found and the state it left.                                            *)
(***************************************************************************)
Entry(op, arg, post) == [op |-> op, arg |-> arg, pre |-> Cur, post |-> post]

\* the newest entry first, at most depth entries
Push(e, depth) ==
    <<e>> \o SubSeq(hist, 1, IF Len(hist) < depth - 1 THEN Len(hist) ELSE depth - 1)

\* the user may act
Idle(bound) == queue = <<>> /\ steps < bound /\ ~closed

Input(op, arg, post, depth) ==
    /\ Becomes(post)
    /\ steps' = steps + 1
    /\ hist' = Push(Entry(op, arg, post), depth)

\* an event that carries nothing the handler reads
NoArg == <<>>

LayerAdd(bound, depth) ==
    \E size \in ImageSizes :
        /\ Idle(bound)
        /\ counter < MaxLayers
        /\ Input("add", size, OnLayerAdd(Cur, size), depth)

\* the file chosen is no image
LayerAddInvalid(bound, depth) ==
    \E size \in InvalidSizes :
        /\ Idle(bound)
        /\ counter < MaxLayers
        /\ Input("add", size, OnLayerAdd(Cur, size), depth)

LayerDuplicate(bound, depth) ==
    /\ Idle(bound)
    /\ counter < MaxLayers
    /\ Input("duplicate", NoArg, OnLayerDuplicate(Cur), depth)

LayerRemove(bound, depth) ==
    /\ Idle(bound)
    /\ Input("remove", NoArg, OnLayerRemove(Cur), depth)

LayerBackward(bound, depth) ==
    /\ Idle(bound)
    /\ Input("backward", NoArg, OnLayerBackward(Cur), depth)

LayerForward(bound, depth) ==
    /\ Idle(bound)
    /\ Input("forward", NoArg, OnLayerForward(Cur), depth)

\* the user clicks the check box of an item
ListItemChecked(bound, depth) ==
    \E i \in 1..Len(layers) :
        /\ Idle(bound)
        /\ Input("check", <<i - 1>>,
                 OnListItemChecked([Begin(Cur) EXCEPT !.layers[i].checked = ~@]),
                 depth)

\* the user clicks an item; the LayerSelectedEvent that
\* Inspector.__on_list_item_selected posts has no handler
ListItemSelected(bound, depth) ==
    \E i \in 0..(Len(layers) - 1) :
        /\ Idle(bound)
        /\ i # selected
        /\ Input("select", <<i>>, [Begin(Cur) EXCEPT !.selected = i], depth)

MotionLeft(bound, depth) ==
    \E d \in Deltas :
        /\ Idle(bound)
        /\ Input("drag", d, OnMotionLeft(Cur, d[1], d[2]), depth)

MotionMiddle(bound, depth) ==
    \E d \in Deltas :
        /\ Idle(bound)
        /\ Input("pan", d, OnMotionMiddle(Cur, d[1], d[2]), depth)

CanvasMotionMiddle(bound, depth) ==
    \E d \in Deltas :
        /\ Idle(bound)
        /\ Input("canvas_pan", d, CanvasOnMotionMiddle(Cur, d[1], d[2]), depth)

KeyDown(bound, depth) ==
    \E k \in Keys :
        /\ Idle(bound)
        /\ Input("key", <<k>>, OnKeyDown(Cur, k), depth)

Mousewheel(bound, depth) ==
    \E rotation \in {-1, 0, 1}, a \in Anchors :
        /\ Idle(bound)
        /\ Abs(zoom_level + rotation) <= MaxZoom
        /\ Input("zoom", <<rotation, a[1], a[2]>>,
                 OnMousewheel(Cur, rotation, a[1], a[2]), depth)

Answers == {"yes", "no"}

MenuFileNew(bound, depth) ==
    \E answer \in Answers :
        /\ Idle(bound)
        /\ Input("new", answer, OnMenubarFileNew(Cur, answer), depth)

MenuFileQuit(bound, depth) ==
    \E answer \in Answers :
        /\ Idle(bound)
        /\ Input("quit", answer, OnMenubarFileQuit(Cur, answer), depth)

MenuFileSave(bound, depth) ==
    \E chosen \in BOOLEAN :
        /\ Idle(bound)
        /\ Input("save", chosen, OnMenubarFileSave(Cur, chosen), depth)

MenuFileSaveAs(bound, depth) ==
    \E chosen \in BOOLEAN :
        /\ Idle(bound)
        /\ Input("save_as", chosen, OnMenubarFileSaveAs(Cur, chosen), depth)

Dispatch ==
    /\ queue # <<>>
    /\ Becomes(Handle([Cur EXCEPT !.queue = Tail(@)], Head(queue)))
    /\ UNCHANGED <<steps, hist>>

(***************************************************************************)
(* Spec: every input.                                                      *)
(***************************************************************************)
Next ==
    \/ LayerAdd(MaxSteps, 1)
    \/ LayerDuplicate(MaxSteps, 1)
    \/ LayerRemove(MaxSteps, 1)
    \/ LayerBackward(MaxSteps, 1)
    \/ LayerForward(MaxSteps, 1)
    \/ ListItemChecked(MaxSteps, 1)
    \/ ListItemSelected(MaxSteps, 1)
    \/ MotionLeft(MaxSteps, 1)
    \/ MotionMiddle(MaxSteps, 1)
    \/ CanvasMotionMiddle(MaxSteps, 1)
    \/ KeyDown(MaxSteps, 1)
    \/ Mousewheel(MaxSteps, 1)
    \/ Dispatch

Spec == Init /\ [][Next]_vars

(***************************************************************************)
(* SpecLayers: the layer operations alone: add, duplicate, remove,         *)
(* reorder, check and select, with the events they post.                   *)
(***************************************************************************)
NextLayers ==
    \/ LayerAdd(MaxLayerSteps, 1)
    \/ LayerDuplicate(MaxLayerSteps, 1)
    \/ LayerRemove(MaxLayerSteps, 1)
    \/ LayerBackward(MaxLayerSteps, 1)
    \/ LayerForward(MaxLayerSteps, 1)
    \/ ListItemChecked(MaxLayerSteps, 1)
    \/ ListItemSelected(MaxLayerSteps, 1)
    \/ Dispatch

SpecLayers == Init /\ [][NextLayers]_vars

(***************************************************************************)
(* SpecMoves: sequences of moves, with the last two inputs in hist.        *)
(***************************************************************************)
NextMoves ==
    \/ LayerAdd(MaxMoveSteps, 2)
    \/ LayerDuplicate(MaxMoveSteps, 2)
    \/ LayerRemove(MaxMoveSteps, 2)
    \/ LayerBackward(MaxMoveSteps, 2)
    \/ LayerForward(MaxMoveSteps, 2)
    \/ ListItemSelected(MaxMoveSteps, 2)
    \/ Dispatch

SpecMoves == Init /\ [][NextMoves]_vars

(***************************************************************************)
(* SpecZoom: the layer operations together with the mouse wheel.           *)
(***************************************************************************)
NextZoom ==
    \/ LayerAdd(MaxZoomSteps, 1)
    \/ LayerDuplicate(MaxZoomSteps, 1)
    \/ LayerRemove(MaxZoomSteps, 1)
    \/ LayerBackward(MaxZoomSteps, 1)
    \/ LayerForward(MaxZoomSteps, 1)
    \/ ListItemSelected(MaxZoomSteps, 1)
    \/ Mousewheel(MaxZoomSteps, 1)
    \/ Dispatch

SpecZoom == Init /\ [][NextZoom]_vars

(***************************************************************************)
(* SpecDegenerate: images and files that are no images are added, moved,   *)
(* zoomed and removed.                                                     *)
(***************************************************************************)
NextDegenerate ==
    \/ LayerAdd(MaxDegenerateSteps, 1)
    \/ LayerAddInvalid(MaxDegenerateSteps, 1)
    \/ LayerRemove(MaxDegenerateSteps, 1)
    \/ ListItemSelected(MaxDegenerateSteps, 1)
    \/ MotionLeft(MaxDegenerateSteps, 1)
    \/ MotionMiddle(MaxDegenerateSteps, 1)
    \/ Mousewheel(MaxDegenerateSteps, 1)
    \/ Dispatch

SpecDegenerate == Init /\ [][NextDegenerate]_vars

(***************************************************************************)
(* SpecSwap: the layer operations together with swap events for every pair *)
(* of list positions.                                                      *)
(***************************************************************************)
\* wx.PostEvent(self.Parent, SwapLayerEvent(layers=(i, j))), handled at once
SwapLayer(bound, depth) ==
    \E i \in 0..(MaxLayers - 1), j \in 0..(MaxLayers - 1) :
        /\ Idle(bound)
        /\ Input("swap", <<i, j>>,
                 OnSwapLayer(Cur, [type |-> "SwapLayer", i |-> i, j |-> j]), depth)

NextSwap ==
    \/ LayerAdd(MaxSwapSteps, 1)
    \/ LayerDuplicate(MaxSwapSteps, 1)
    \/ LayerRemove(MaxSwapSteps, 1)
    \/ LayerBackward(MaxSwapSteps, 1)
    \/ LayerForward(MaxSwapSteps, 1)
    \/ ListItemChecked(MaxSwapSteps, 1)
    \/ ListItemSelected(MaxSwapSteps, 1)
    \/ MotionLeft(MaxSwapSteps, 1)
    \/ SwapLayer(MaxSwapSteps, 1)
    \/ Dispatch

SpecSwap == Init /\ [][NextSwap]_vars

(***************************************************************************)
(* SpecPan: layers are added, moved with the mouse and the arrow keys, and *)
(* the camera is panned.                                                   *)
(***************************************************************************)
NextPan ==
    \/ LayerAdd(MaxPanSteps, 1)
    \/ ListItemSelected(MaxPanSteps, 1)
    \/ MotionLeft(MaxPanSteps, 1)
    \/ MotionMiddle(MaxPanSteps, 1)
    \/ KeyDown(MaxPanSteps, 1)
    \/ Dispatch

SpecPan == Init /\ [][NextPan]_vars

(***************************************************************************)
(* SpecFile: layers are added and removed and the file menu is used.       *)
(***************************************************************************)
NextFile ==
    \/ LayerAdd(MaxFileSteps, 1)
    \/ LayerRemove(MaxFileSteps, 1)
    \/ MenuFileNew(MaxFileSteps, 1)
    \/ MenuFileQuit(MaxFileSteps, 1)
    \/ MenuFileSave(MaxFileSteps, 1)
    \/ MenuFileSaveAs(MaxFileSteps, 1)
    \/ Dispatch

SpecFile == Init /\ [][NextFile]_vars

(***************************************************************************)
(* Rects on its own: a rectangle set of bounded length, and insert and     *)
(* delete called on it with every index around its range.                  *)
(***************************************************************************)
SampleRects == {Rect(Q(0), Q(0), Q(8), Q(4)), Rect(Q(2), Q(1), Q(4), Q(8))}

RectSets == UNION {[1..n -> SampleRects] : n \in 0..MaxRects}

RectIndices(rs) == -(Len(rs) + 2)..(Len(rs) + 1)

InitRects ==
    /\ wxAsserts \in BOOLEAN
    /\ layers = <<>>
    /\ selected = -1
    /\ counter = 0
    /\ paths = EmptyDict
    /\ bitmaps = EmptyDict
    /\ destinations \in RectSets
    /\ canvas_order = <<>>
    /\ canvas_visibility = <<>>
    /\ canvas_paths = EmptyDict
    /\ canvas_bitmaps = EmptyDict
    /\ canvas_destinations = <<>>
    /\ zoom_level = 0
    /\ canvas_scale_factor = Q(1)
    /\ minimap_order = <<>>
    /\ minimap_visibility = <<>>
    /\ minimap_paths = EmptyDict
    /\ minimap_bitmaps = EmptyDict
    /\ minimap_destinations = <<>>
    /\ minimap_scale_factor = Q(1)
    /\ camera = [x |-> 0, y |-> 0, w |-> 400, h |-> 400]
    /\ saved = FALSE
    /\ savefile = FALSE
    /\ closed = FALSE
    /\ queue = <<>>
    /\ err = "none"
    /\ steps = 0
    /\ hist = NoHist

\* Rects.insert(index, rect)
RectsInsertCall ==
    \E i \in RectIndices(destinations), r \in SampleRects :
        /\ steps < MaxRectSteps
        /\ Input("insert", <<i, r>>,
                 RectsInsertStmt(Begin(Cur), "destinations", i, r), 2)

\* Rects.delete(index)
RectsDeleteCall ==
    \E i \in RectIndices(destinations) :
        /\ steps < MaxRectSteps
        /\ Input("delete", i, RectsDeleteStmt(Begin(Cur), "destinations", i), 2)

NextRects ==
    \/ RectsInsertCall
    \/ RectsDeleteCall

SpecRects == InitRects /\ [][NextRects]_vars

(***************************************************************************)
(* Canvas.__on_paint and Minimap.__on_paint: the ids whose bitmap is drawn,*)
(* in the order of drawing.  The loop ends with an exception at an id      *)
(* without a flag, a path, a bitmap or a rectangle.                        *)
(***************************************************************************)
\* a variant that draws from the last entry of order to the first
RECURSIVE PaintBackToFront(_, _, _, _, _, _)
PaintBackToFront(order, visibility, pths, bmps, dests, n) ==
    IF n > Len(order) \/ Len(order) + 1 - n > Len(visibility) THEN <<>>
    ELSE IF ~visibility[Len(order) + 1 - n]
         THEN PaintBackToFront(order, visibility, pths, bmps, dests, n + 1)
    ELSE IF order[Len(order) + 1 - n] \notin DOMAIN pths THEN <<>>
    ELSE IF pths[order[Len(order) + 1 - n]] \notin DOMAIN bmps THEN <<>>
    ELSE IF Len(order) + 1 - n > Len(dests) THEN <<>>
    ELSE <<order[Len(order) + 1 - n]>>
             \o PaintBackToFront(order, visibility, pths, bmps, dests, n + 1)

\* for n, key in enumerate(self.order)
RECURSIVE Paint(_, _, _, _, _, _)
Paint(order, visibility, pths, bmps, dests, n) ==
    IF n > Len(order) \/ n > Len(visibility) THEN <<>>
    ELSE IF ~visibility[n] THEN Paint(order, visibility, pths, bmps, dests, n + 1)
    ELSE IF order[n] \notin DOMAIN pths THEN <<>>
    ELSE IF pths[order[n]] \notin DOMAIN bmps THEN <<>>
    ELSE IF n > Len(dests) THEN <<>>
    ELSE <<order[n]>> \o Paint(order, visibility, pths, bmps, dests, n + 1)

CanvasPaint ==
    Paint(canvas_order, canvas_visibility, canvas_paths, canvas_bitmaps,
          canvas_destinations, 1)

MinimapPaint ==
    Paint(minimap_order, minimap_visibility, minimap_paths, minimap_bitmaps,
          minimap_destinations, 1)

(***************************************************************************)
(* Vocabulary of the properties.                                           *)
(***************************************************************************)
Has(seq, e) == \E p \in 1..Len(seq) : seq[p] = e
Pos(seq, e) == CHOOSE p \in 1..Len(seq) : seq[p] = e
Reverse(seq) == [k \in 1..Len(seq) |-> seq[Len(seq) + 1 - k]]
IsPrefix(a, b) == Len(a) <= Len(b) /\ a = SubSeq(b, 1, Len(a))

\* the ids of order whose flag is true, in the order of order
Visible(order, visibility) ==
    LET idx == {k \in 1..Len(order) : k <= Len(visibility) /\ visibility[k]}
        rank(k) == Cardinality({j \in idx : j <= k})
    IN  [r \in 1..Cardinality(idx) |-> order[CHOOSE k \in idx : rank(k) = r]]

\* the last input was op: e.pre is the state the handler found, e.post the
\* state it left
Last(op) == Len(hist) >= 1 /\ hist[1].op = op
\* the input before the last was op
Before(op) == Len(hist) >= 2 /\ hist[2].op = op
\* the item data of the item that was selected when the last input arrived
SelData(e) == e.pre.layers[e.pre.selected + 1].data
SelValid(e) == e.pre.selected >= 0 /\ e.pre.selected < Len(e.pre.layers)
\* the flag of the layer id
FlagOf(order, visibility, id) == visibility[Pos(order, id)]

(***************************************************************************)
(* C1: canvas.order, canvas.visibility, canvas.destinations,               *)
(* minimap.destinations and the main window's unscaled destinations have   *)
(* the same length after every handler.                                    *)
(***************************************************************************)
ParallelLengths ==
    /\ Len(canvas_visibility) = Len(canvas_order)
    /\ Len(canvas_destinations) = Len(canvas_order)
    /\ Len(minimap_destinations) = Len(canvas_order)
    /\ Len(destinations) = Len(canvas_order)

(***************************************************************************)
(* C2: after a duplicate that ended without an exception, and the handling *)
(* of the events it posted, the item at list position s holds the id       *)
(* canvas.order[-(s + 1)], for every position s of the layer list.         *)
(***************************************************************************)
MirroredSelection ==
    (queue = <<>> /\ err = "none" /\ Last("duplicate") /\ hist[1].post.err = "none") =>
        \A s \in 0..(Len(layers) - 1) :
            /\ PyValid(MirrorIndex(s), Len(canvas_order))
            /\ layers[s + 1].data = canvas_order[PyPos(MirrorIndex(s), Len(canvas_order))]

IdsDistinct ==
    /\ \A p, q \in 1..Len(canvas_order) : canvas_order[p] = canvas_order[q] => p = q
    /\ \A p \in 1..Len(canvas_order) : canvas_order[p] < counter

IdsFresh ==
    /\ counter' >= counter
    /\ \A p \in 1..Len(canvas_order') :
           ~Has(canvas_order, canvas_order'[p]) =>
               canvas_order'[p] = counter /\ counter' > counter

RenderReversed ==
    /\ CanvasPaint = Reverse(Visible(canvas_order, canvas_visibility))
    /\ MinimapPaint = Reverse(Visible(minimap_order, minimap_visibility))

(***************************************************************************)
(* What the paint loop needs of every layer: a flag, a path, a bitmap and  *)
(* a rectangle.                                                            *)
(***************************************************************************)
Complete(order, visibility, pths, bmps, dests) ==
    /\ Len(visibility) >= Len(order)
    /\ Len(dests) >= Len(order)
    /\ \A p \in 1..Len(order) :
           order[p] \in DOMAIN pths /\ pths[order[p]] \in DOMAIN bmps

CanvasComplete ==
    Complete(canvas_order, canvas_visibility, canvas_paths, canvas_bitmaps,
             canvas_destinations)

MinimapComplete ==
    Complete(minimap_order, minimap_visibility, minimap_paths, minimap_bitmaps,
             minimap_destinations)

(***************************************************************************)
(* C4 as amended: the rendered ids are the ids of order whose flag is true *)
(* in the order of order, not reversed (cut short at the first layer the   *)
(* paint loop cannot draw); after adding layer 0 and then layer 1, both    *)
(* visible, the render order is <<0, 1>>; an empty order gives an empty    *)
(* render order.                                                           *)
(***************************************************************************)
RenderInOrder ==
    /\ IsPrefix(CanvasPaint, Visible(canvas_order, canvas_visibility))
    /\ IsPrefix(MinimapPaint, Visible(minimap_order, minimap_visibility))
    /\ CanvasComplete => CanvasPaint = Visible(canvas_order, canvas_visibility)
    /\ MinimapComplete => MinimapPaint = Visible(minimap_order, minimap_visibility)
    /\ (canvas_order = <<0, 1>> /\ canvas_visibility = <<TRUE, TRUE>> /\ CanvasComplete)
          => CanvasPaint = <<0, 1>>
    /\ canvas_order = <<>> => CanvasPaint = <<>>
    /\ minimap_order = <<>> => MinimapPaint = <<>>

\* layer 0 and then layer 1 were added and both are visible
TwoVisibleLayers ==
    /\ Last("add")
    /\ hist[1].pre.canvas_order = <<0>>
    /\ queue = <<>>
    /\ canvas_order = <<0, 1>>
    /\ canvas_visibility = <<TRUE, TRUE>>
    /\ CanvasPaint = <<0, 1>>
    /\ MinimapPaint = <<0, 1>>

RemovedAt(e, p) ==
    /\ e.post.canvas_order = DeleteAt(e.pre.canvas_order, p)
    /\ e.post.canvas_visibility = DeleteAt(e.pre.canvas_visibility, p)
    /\ e.post.canvas_destinations = DeleteAt(e.pre.canvas_destinations, p)
    /\ e.post.minimap_order = DeleteAt(e.pre.minimap_order, p)
    /\ Len(e.post.minimap_destinations) = Len(e.pre.minimap_destinations) - 1

(***************************************************************************)
(* C5: a remove that ends without an exception, with a selected item whose *)
(* id is in order, deletes that id from canvas.order together with the     *)
(* flag and the canvas rectangle at its position, and one minimap          *)
(* rectangle; the other ids, flags and canvas rectangles stay as they were *)
(* and in their order.                                                     *)
(***************************************************************************)
RemoveDeletesSelected ==
    (/\ Last("remove")
     /\ SelValid(hist[1])
     /\ hist[1].post.err = "none"
     /\ Has(hist[1].pre.canvas_order, SelData(hist[1])))
        => RemovedAt(hist[1], Pos(hist[1].pre.canvas_order, SelData(hist[1])))

DuplicatedAfter(e, p) ==
    /\ e.post.canvas_order = InsertAt(e.pre.canvas_order, p + 1, e.pre.counter)
    /\ Len(e.post.canvas_destinations) = Len(e.pre.canvas_destinations) + 1
    /\ p <= Len(e.pre.canvas_destinations)
    /\ e.post.canvas_destinations[p + 1] = e.pre.canvas_destinations[p]

(***************************************************************************)
(* C6: a duplicate that ends without an exception inserts the new id into  *)
(* canvas.order at the position immediately after the position of the id   *)
(* of the selected item, and the canvas rectangle at the new position       *)
(* equals the canvas rectangle of the source.                               *)
(***************************************************************************)
DuplicateAboveSource ==
    (/\ Last("duplicate")
     /\ SelValid(hist[1])
     /\ hist[1].post.err = "none"
     /\ Has(hist[1].pre.canvas_order, SelData(hist[1])))
        => DuplicatedAfter(hist[1], Pos(hist[1].pre.canvas_order, SelData(hist[1])))

FlagsInherited(e, src, new) ==
    /\ Has(canvas_order, src) /\ Has(canvas_order, new)
    /\ Len(canvas_visibility) = Len(canvas_order)
    /\ FlagOf(canvas_order, canvas_visibility, new)
          = FlagOf(e.pre.canvas_order, e.pre.canvas_visibility, src)
    /\ FlagOf(canvas_order, canvas_visibility, src)
          = FlagOf(e.pre.canvas_order, e.pre.canvas_visibility, src)

(***************************************************************************)
(* C7: after a duplicate and the handling of the events it posted, the     *)
(* flag of the new layer equals the flag the source had before the         *)
(* duplicate, and the flag of the source is what it was.                   *)
(***************************************************************************)
DuplicateInheritsVisibility ==
    (/\ queue = <<>>
     /\ err = "none"
     /\ Last("duplicate")
     /\ SelValid(hist[1])
     /\ hist[1].post.err = "none"
     /\ Has(hist[1].pre.canvas_order, SelData(hist[1]))
     /\ Len(hist[1].pre.canvas_visibility) = Len(hist[1].pre.canvas_order))
        => FlagsInherited(hist[1], SelData(hist[1]), hist[1].pre.counter)

(***************************************************************************)
(* C8: move backward with the last item of the list selected is a no-op:   *)
(* the list is what it was, no event is posted and canvas.order is what it *)
(* was, also after the handling of the events of the input.                *)
(***************************************************************************)
BackwardAtLastIsNoOp ==
    (/\ Last("backward")
     /\ SelValid(hist[1])
     /\ hist[1].pre.selected + 1 = Len(hist[1].pre.layers))
        => /\ hist[1].post.layers = hist[1].pre.layers
           /\ hist[1].post.selected = hist[1].pre.selected
           /\ hist[1].post.queue = <<>>
           /\ canvas_order = hist[1].pre.canvas_order

SwapsPosted(q) == {k \in 1..Len(q) : q[k].type = "SwapLayer"}

(***************************************************************************)
(* C9: move forward posts a swap of the positions index and index - 1, and *)
(* only if index > 0; at index 0 and with no selection the handler posts   *)
(* nothing and leaves the list, the selection, order, visibility and every *)
(* rectangle of canvas, minimap and main window as they were.              *)
(***************************************************************************)
ForwardOnlyAboveZero ==
    Last("forward") =>
        /\ hist[1].pre.selected <= 0 =>
               /\ hist[1].post = Begin(hist[1].pre)
               /\ hist[1].post.queue = <<>>
        /\ \A k \in SwapsPosted(hist[1].post.queue) :
               /\ hist[1].pre.selected > 0
               /\ hist[1].post.queue[k].i = hist[1].pre.selected
               /\ hist[1].post.queue[k].j = hist[1].pre.selected - 1
        /\ hist[1].pre.selected > 0 => SwapsPosted(hist[1].post.queue) # {}

\* move forward with the first of two items selected
ForwardAtFirst ==
    /\ Last("forward")
    /\ hist[1].pre.selected = 0
    /\ Len(hist[1].pre.layers) >= 2
    /\ Len(hist[1].pre.canvas_order) >= 2
    /\ hist[1].post.queue = <<>>
    /\ canvas_order = hist[1].pre.canvas_order

Inner(e) == 0 < e.pre.selected /\ e.pre.selected < Len(e.pre.layers) - 1

(***************************************************************************)
(* C10: move forward and then move backward of a selected item that is     *)
(* neither the first nor the last of the list, with the posted events      *)
(* handled, leave canvas.order, minimap.order and the rectangles of canvas *)
(* and minimap as they were before the two moves.                          *)
(***************************************************************************)
ForwardBackwardRestores ==
    (/\ queue = <<>>
     /\ Last("backward")
     /\ Before("forward")
     /\ Inner(hist[2]))
        => /\ canvas_order = hist[2].pre.canvas_order
           /\ minimap_order = hist[2].pre.minimap_order
           /\ canvas_destinations = hist[2].pre.canvas_destinations
           /\ minimap_destinations = hist[2].pre.minimap_destinations

\* the middle one of three layers with different rectangles went forward
\* and backward
MiddleThereAndBack ==
    /\ queue = <<>>
    /\ Last("backward")
    /\ Before("forward")
    /\ Inner(hist[2])
    /\ hist[1].pre.selected = hist[2].pre.selected - 1
    /\ selected = hist[2].pre.selected
    /\ hist[1].pre.canvas_order # hist[2].pre.canvas_order
    /\ hist[1].pre.canvas_destinations # hist[2].pre.canvas_destinations
    /\ canvas_order = hist[2].pre.canvas_order

\* the last input was a move of the selected item to the valid position
\* next to it: forward from a position above 0, backward from a position
\* before the last
Swapped(e) ==
    /\ SelValid(e)
    /\ \/ e.op = "forward" /\ e.pre.selected > 0
       \/ e.op = "backward" /\ e.pre.selected + 1 < Len(e.pre.layers)

NewIndex(e) == IF e.op = "forward" THEN e.pre.selected - 1 ELSE e.pre.selected + 1

\* the id order holds at the mirrored index of the selection of state s
OrderAtSelection(s) == s.canvas_order[PyPos(MirrorIndex(s.selected), Len(s.canvas_order))]

(***************************************************************************)
(* C11: after a move forward or backward that swaps, the selection is the  *)
(* new position of the moved item and the item there holds the id that was *)
(* selected before; once the swap is handled without an exception,         *)
(* canvas.order holds at the mirrored index of the selection the id it     *)
(* held at the mirrored index of the selection before the move.            *)
(***************************************************************************)
SelectionFollowsLayer ==
    (Len(hist) >= 1 /\ Swapped(hist[1])) =>
        /\ hist[1].post.err = "none"
        /\ hist[1].post.selected = NewIndex(hist[1])
        /\ hist[1].post.layers[hist[1].post.selected + 1].data = SelData(hist[1])
        /\ Len(hist[1].post.layers) = Len(hist[1].pre.layers)
        /\ (/\ queue = <<>>
            /\ err = "none"
            /\ PyValid(MirrorIndex(hist[1].pre.selected), Len(hist[1].pre.canvas_order))
            /\ PyValid(MirrorIndex(selected), Len(canvas_order)))
              => /\ selected = NewIndex(hist[1])
                 /\ OrderAtSelection(Cur) = OrderAtSelection(hist[1].pre)

\* the second of two different layers went backward and the swap is handled
MovedAndSelected ==
    /\ Last("backward")
    /\ Swapped(hist[1])
    /\ queue = <<>>
    /\ err = "none"
    /\ selected = hist[1].pre.selected + 1
    /\ Len(canvas_order) >= 2
    /\ canvas_order # hist[1].pre.canvas_order
    /\ OrderAtSelection(Cur) = SelData(hist[1])

\* the flags of after are the flags of before with the flag at p flipped
FlippedAt(before, after, p) ==
    /\ Len(after) = Len(before)
    /\ \A q \in 1..Len(before) : after[q] = (IF q = p THEN ~before[q] ELSE before[q])

\* the user clicked the check box of the selected item, whose id is in order
ToggledSelected(e) ==
    /\ e.op = "check"
    /\ SelValid(e)
    /\ e.arg[1] = e.pre.selected
    /\ Has(e.pre.canvas_order, SelData(e))
    /\ Has(e.pre.minimap_order, SelData(e))

(***************************************************************************)
(* C12: when the user toggles the check box of the selected item and the   *)
(* posted event is handled, the flag of the layer of that item is flipped  *)
(* in canvas.visibility and in minimap.visibility, every other flag, both  *)
(* orders and all rectangles are what they were.                           *)
(***************************************************************************)
ToggleFlipsSelected ==
    (queue = <<>> /\ Len(hist) >= 1 /\ ToggledSelected(hist[1])) =>
        /\ err = "none"
        /\ canvas_order = hist[1].pre.canvas_order
        /\ minimap_order = hist[1].pre.minimap_order
        /\ canvas_destinations = hist[1].pre.canvas_destinations
        /\ minimap_destinations = hist[1].pre.minimap_destinations
        /\ destinations = hist[1].pre.destinations
        /\ FlippedAt(hist[1].pre.canvas_visibility, canvas_visibility,
                     Pos(hist[1].pre.canvas_order, SelData(hist[1])))
        /\ FlippedAt(hist[1].pre.minimap_visibility, minimap_visibility,
                     Pos(hist[1].pre.minimap_order, SelData(hist[1])))

\* state b has the orders, flags and rectangles of state a
SameLayers(a, b) ==
    /\ b.canvas_order = a.canvas_order
    /\ b.canvas_visibility = a.canvas_visibility
    /\ b.canvas_destinations = a.canvas_destinations
    /\ b.minimap_order = a.minimap_order
    /\ b.minimap_visibility = a.minimap_visibility
    /\ b.minimap_destinations = a.minimap_destinations
    /\ b.destinations = a.destinations

SelectionDriven == {"duplicate", "remove", "drag", "key"}

(***************************************************************************)
(* C13: with nothing selected (selected = -1) duplicate, remove, drag and  *)
(* arrow key end without an exception and leave every order entry, flag    *)
(* and rectangle as it was, and so does a click on a check box once the    *)
(* posted event is handled.                                                *)
(***************************************************************************)
NoSelectionIsNoOp ==
    /\ (/\ Len(hist) >= 1
        /\ hist[1].pre.selected = -1
        /\ hist[1].op \in SelectionDriven)
          => /\ hist[1].post.err = "none"
             /\ SameLayers(hist[1].pre, hist[1].post)
    /\ (/\ queue = <<>>
        /\ Last("check")
        /\ hist[1].pre.selected = -1)
          => /\ err = "none"
             /\ SameLayers(hist[1].pre, Cur)

\* the step of the zoom level a wheel rotation asks for
ZoomStep(rotation) == IF rotation > 0 THEN 1 ELSE IF rotation < 0 THEN -1 ELSE 0

NoOpZoom(e) == e.op = "zoom" /\ e.arg[1] = 0

(***************************************************************************)
(* C15: a wheel event with rotation 0, whose old and new scale factor are  *)
(* equal, leaves the x, y, w and h of every canvas rectangle as they were. *)
(***************************************************************************)
NoOpZoomKeepsRects ==
    (Len(hist) >= 1 /\ NoOpZoom(hist[1])) =>
        hist[1].post.canvas_destinations = hist[1].pre.canvas_destinations

\* the layer drawn with rectangle k of the canvas has its image loaded
Loaded(k) ==
    /\ k <= Len(canvas_order)
    /\ canvas_order[k] \in DOMAIN canvas_paths
    /\ canvas_paths[canvas_order[k]] \in DOMAIN bitmaps

\* width and height of the unscaled image of that layer
UnscaledSize(k) == bitmaps[canvas_paths[canvas_order[k]]]

(***************************************************************************)
(* C16: after every handler that completed, the width and height of every *)
(* layer's canvas rectangle are the width and height of that layer's       *)
(* unscaled image multiplied by the current scale factor; stated for the   *)
(* states in which the main window keeps one rectangle for each rectangle  *)
(* of the canvas.                                                          *)
(***************************************************************************)
SizesFromUnscaled ==
    (queue = <<>> /\ err = "none" /\ Len(destinations) = Len(canvas_destinations)) =>
        \A k \in 1..Len(canvas_destinations) :
            Loaded(k) =>
                /\ canvas_destinations[k].w =
                       RMul(Q(UnscaledSize(k)[1]), canvas_scale_factor)
                /\ canvas_destinations[k].h =
                       RMul(Q(UnscaledSize(k)[2]), canvas_scale_factor)

\* the camera was panned, over the main window or over the canvas
Panned(e) == e.op \in {"pan", "canvas_pan"}

\* every rectangle moved by d = <<dx, dy>>
Translated(cd, d) ==
    [k \in 1..Len(cd) |->
        Rect(RAdd(cd[k].x, Q(d[1])), RAdd(cd[k].y, Q(d[2])), cd[k].w, cd[k].h)]

(***************************************************************************)
(* C17: a pan by (dx, dy) adds dx to the x and dy to the y of every canvas *)
(* rectangle and changes no width, no height, no entry of the order and no *)
(* visibility flag.                                                        *)
(***************************************************************************)
PanTranslatesAll ==
    (Len(hist) >= 1 /\ Panned(hist[1])) =>
        /\ hist[1].post.canvas_destinations =
               Translated(hist[1].pre.canvas_destinations, hist[1].arg)
        /\ hist[1].post.canvas_order = hist[1].pre.canvas_order
        /\ hist[1].post.canvas_visibility = hist[1].pre.canvas_visibility

\* one layer was moved, with the mouse or with an arrow key, and the index
\* the handler computed is one of the canvas rectangles
MovedOne(e) ==
    /\ e.op \in {"drag", "key"}
    /\ PyValid(MirrorIndex(e.pre.selected), Len(e.pre.canvas_destinations))

\* the step of an arrow key is the scale factor rounded up
KeyStep(e) == RCeil(e.pre.canvas_scale_factor)

\* dx, dy of the move
MoveDelta(e) ==
    IF e.op = "drag" THEN e.arg
    ELSE IF e.arg[1] = "LEFT" THEN <<-KeyStep(e), 0>>
    ELSE IF e.arg[1] = "RIGHT" THEN <<KeyStep(e), 0>>
    ELSE IF e.arg[1] = "UP" THEN <<0, -KeyStep(e)>>
    ELSE <<0, KeyStep(e)>>

\* the position in the canvas rectangles the handler moved
MovedPos(e) == PyPos(MirrorIndex(e.pre.selected), Len(e.pre.canvas_destinations))

(***************************************************************************)
(* C18: moving one layer by drag or arrow key adds dx, dy to the x, y of   *)
(* the rectangle at the given index, without clamping, and leaves the w, h *)
(* of that rectangle and every other rectangle unchanged.                  *)
(***************************************************************************)
MoveTranslatesOne ==
    (Len(hist) >= 1 /\ MovedOne(hist[1])) =>
        /\ Len(hist[1].post.canvas_destinations) = Len(hist[1].pre.canvas_destinations)
        /\ \A k \in 1..Len(hist[1].pre.canvas_destinations) :
               hist[1].post.canvas_destinations[k] =
                   IF k = MovedPos(hist[1])
                   THEN Rect(RAdd(hist[1].pre.canvas_destinations[k].x,
                                  Q(MoveDelta(hist[1])[1])),
                             RAdd(hist[1].pre.canvas_destinations[k].y,
                                  Q(MoveDelta(hist[1])[2])),
                             hist[1].pre.canvas_destinations[k].w,
                             hist[1].pre.canvas_destinations[k].h)
                   ELSE hist[1].pre.canvas_destinations[k]

\* with two layers, the left arrow took the selected one to a negative x
MovedLeftOfOrigin ==
    /\ Last("key")
    /\ hist[1].arg = <<"LEFT">>
    /\ MovedOne(hist[1])
    /\ Len(canvas_destinations) = 2
    /\ RLess(canvas_destinations[MovedPos(hist[1])].x, Q(0))
    /\ \E k \in 1..2 : k # MovedPos(hist[1]) /\ canvas_destinations[k].x = Q(0)

\* the handlers that change a position, a size or the number of layers
Reshaping == {"add", "duplicate", "remove", "drag", "key", "pan", "canvas_pan", "zoom"}

\* such a handler completed and left as many minimap as canvas rectangles
Reshaped(e) ==
    /\ e.op \in Reshaping
    /\ e.post.err = "none"
    /\ Len(e.post.canvas_destinations) >= 1
    /\ Len(e.post.minimap_destinations) = Len(e.post.canvas_destinations)

(***************************************************************************)
(* C19: after every completed handler that changes a layer's position or   *)
(* size or the number of layers, the minimap rectangles are the            *)
(* fit-projection of the current canvas rectangles.                        *)
(***************************************************************************)
MinimapFollowsCanvas ==
    (Len(hist) >= 1 /\ Reshaped(hist[1])) =>
        hist[1].post.minimap_destinations = Project(hist[1].post.canvas_destinations)

\* the handlers that end with __update_minimap
Projecting == {"add", "duplicate", "remove", "drag", "pan", "zoom"}

\* such a handler completed and left as many minimap as canvas rectangles
Projected(e) ==
    /\ e.op \in Projecting
    /\ e.post.err = "none"
    /\ Len(e.post.canvas_destinations) >= 1
    /\ Len(e.post.minimap_destinations) = Len(e.post.canvas_destinations)

Lowest(S) == CHOOSE a \in S : \A b \in S : ~RLess(b, a)
Highest(S) == CHOOSE a \in S : \A b \in S : ~RLess(a, b)

\* the bounding box of the rectangles cd
XMin(cd) == Lowest({cd[k].x : k \in 1..Len(cd)})
YMin(cd) == Lowest({cd[k].y : k \in 1..Len(cd)})
BBoxW(cd) == RSub(Highest({RAdd(cd[k].x, cd[k].w) : k \in 1..Len(cd)}), XMin(cd))
BBoxH(cd) == RSub(Highest({RAdd(cd[k].y, cd[k].h) : k \in 1..Len(cd)}), YMin(cd))

\* min(minimap_w / bbox_w, minimap_h / bbox_h)
MinRatio(cd) ==
    IF RLess(RDiv(Q(MinimapSize), BBoxW(cd)), RDiv(Q(MinimapSize), BBoxH(cd)))
    THEN RDiv(Q(MinimapSize), BBoxW(cd))
    ELSE RDiv(Q(MinimapSize), BBoxH(cd))

\* the rectangle r of cd mapped into the minimap
Mini(cd, r) ==
    Rect(RMul(RSub(r.x, XMin(cd)), MinRatio(cd)),
         RMul(RSub(r.y, YMin(cd)), MinRatio(cd)),
         RMul(r.w, MinRatio(cd)),
         RMul(r.h, MinRatio(cd)))

(***************************************************************************)
(* C20: the minimap projection uses factor = min(minimap_w / bbox_w,       *)
(* minimap_h / bbox_h) over the bounding box of all canvas rectangles and  *)
(* maps every layer to ((x - x_min) * factor, (y - y_min) * factor,        *)
(* w * factor, h * factor); a single layer Rect(0,0,100,50) in the 400 by  *)
(* 400 minimap has factor 4 and is projected to Rect(0,0,400,200).         *)
(***************************************************************************)
ProjectionFormula ==
    /\ FitFactor(<<Rect(Q(0), Q(0), Q(100), Q(50))>>) = Q(4)
    /\ Project(<<Rect(Q(0), Q(0), Q(100), Q(50))>>) =
           <<Rect(Q(0), Q(0), Q(400), Q(200))>>
    /\ (Len(hist) >= 1 /\ Projected(hist[1])) =>
           /\ FitFactor(hist[1].post.canvas_destinations) =
                  MinRatio(hist[1].post.canvas_destinations)
           /\ \A k \in 1..Len(hist[1].post.canvas_destinations) :
                  hist[1].post.minimap_destinations[k] =
                      Mini(hist[1].post.canvas_destinations,
                           hist[1].post.canvas_destinations[k])

\* two layers after a drag: one of them is projected away from the left edge
ProjectedTwoLayers ==
    /\ Last("drag")
    /\ Projected(hist[1])
    /\ Len(canvas_destinations) = 2
    /\ \E k \in 1..2 : RLess(Q(0), minimap_destinations[k].x)
    /\ \E k \in 1..2 : minimap_destinations[k].x = Q(0)

\* the camera rectangle of the claim, before any rounding, for the canvas
\* rectangles cd
CameraX(cd) == RMul(RNeg(XMin(cd)), MinRatio(cd))
CameraY(cd) == RMul(RNeg(YMin(cd)), MinRatio(cd))
CameraW(cd) == RMul(Q(CanvasW), MinRatio(cd))
CameraH(cd) == RMul(Q(CanvasH), MinRatio(cd))

\* int(): the fraction is dropped, towards zero
Truncated(q) == IF q[1] >= 0 THEN q[1] \div q[2] ELSE -((-q[1]) \div q[2])

\* the statement without the rounding: the camera is the exact product
CameraExact ==
    (Len(hist) >= 1 /\ Projected(hist[1])) =>
        /\ Q(hist[1].post.camera.x) = CameraX(hist[1].post.canvas_destinations)
        /\ Q(hist[1].post.camera.y) = CameraY(hist[1].post.canvas_destinations)
        /\ Q(hist[1].post.camera.w) = CameraW(hist[1].post.canvas_destinations)
        /\ Q(hist[1].post.camera.h) = CameraH(hist[1].post.canvas_destinations)

(***************************************************************************)
(* C21: after every minimap recompute the camera rectangle is              *)
(* -x_min * factor, -y_min * factor, canvas_viewport_w * factor and        *)
(* canvas_viewport_h * factor, each truncated to an integer, with the      *)
(* x_min, y_min and factor of the layer projection of that recompute.      *)
(***************************************************************************)
CameraTruncated ==
    (Len(hist) >= 1 /\ Projected(hist[1])) =>
        /\ hist[1].post.camera.x = Truncated(CameraX(hist[1].post.canvas_destinations))
        /\ hist[1].post.camera.y = Truncated(CameraY(hist[1].post.canvas_destinations))
        /\ hist[1].post.camera.w = Truncated(CameraW(hist[1].post.canvas_destinations))
        /\ hist[1].post.camera.h = Truncated(CameraH(hist[1].post.canvas_destinations))

\* a recompute over two layers whose factor does not give a whole camera
\* width
CameraRounded ==
    /\ Len(hist) >= 1
    /\ Projected(hist[1])
    /\ camera = hist[1].post.camera
    /\ Len(canvas_destinations) = 2
    /\ Q(camera.w) # CameraW(canvas_destinations)
    /\ camera.w = Truncated(CameraW(canvas_destinations))

\* a handler reached the minimap recompute with no layer left: a pan or a
\* wheel event without layers, or the removal of the selected, only layer
\* on a build whose list control accepts the selection of a missing item
EmptyRecompute(e) ==
    /\ Len(e.post.canvas_destinations) = 0
    /\ \/ e.op \in {"pan", "zoom"}
       \/ /\ e.op = "remove"
          /\ SelValid(e)
          /\ Len(e.pre.canvas_destinations) = 1
          /\ e.post.err # "wxAssertionError"

(***************************************************************************)
(* C22: with zero layers the minimap recompute is a no-op and not a crash: *)
(* the handler, in particular the removal of the only remaining layer,     *)
(* completes without error and leaves the camera and the minimap scale     *)
(* factor at their previous values.                                        *)
(***************************************************************************)
EmptyRecomputeIsNoOp ==
    (Len(hist) >= 1 /\ EmptyRecompute(hist[1])) =>
        /\ hist[1].post.err = "none"
        /\ hist[1].post.camera = hist[1].pre.camera
        /\ hist[1].post.minimap_scale_factor = hist[1].pre.minimap_scale_factor

\* the bounding box of the rectangles cd has width 0 or height 0
Degenerate(cd) == Len(cd) >= 1 /\ (BBoxW(cd) = Q(0) \/ BBoxH(cd) = Q(0))

\* a handler reached the minimap recompute with such a bounding box
DegenerateRecompute(e) ==
    /\ e.op \in Projecting
    /\ e.post.err # "wxAssertionError"
    /\ Len(e.post.minimap_destinations) = Len(e.post.canvas_destinations)
    /\ Degenerate(e.post.canvas_destinations)

\* no field of the rectangles rs is inf or nan
AllFinite(rs) ==
    \A k \in 1..Len(rs) :
        Finite(rs[k].x) /\ Finite(rs[k].y) /\ Finite(rs[k].w) /\ Finite(rs[k].h)

(***************************************************************************)
(* C23: when the bounding box of all layers has width 0 or height 0 the    *)
(* minimap recompute is skipped: the handler completes, the camera and the *)
(* stored minimap scale factor keep their values, the minimap rectangles   *)
(* of a move, a pan or a zoom keep theirs, and no minimap rectangle holds  *)
(* a value derived from a division by zero.                                *)
(***************************************************************************)
DegenerateIsSkipped ==
    (Len(hist) >= 1 /\ DegenerateRecompute(hist[1])) =>
        /\ hist[1].post.err = "none"
        /\ hist[1].post.camera = hist[1].pre.camera
        /\ hist[1].post.minimap_scale_factor = hist[1].pre.minimap_scale_factor
        /\ AllFinite(hist[1].post.minimap_destinations)
        /\ hist[1].op \in {"drag", "pan", "zoom"} =>
               hist[1].post.minimap_destinations = hist[1].pre.minimap_destinations

\* the handlers that call __update_minimap(resize=True)
Resizing == {"add", "duplicate", "remove", "zoom"}

\* the bitmap of size size resampled with factor f
Resampled(size, f) == <<Truncated(RMul(Q(size[1]), f)), Truncated(RMul(Q(size[2]), f))>>

\* the recompute of handler e regenerated the cached minimap bitmaps
Regenerates(e) ==
    /\ e.op \in Resizing
    /\ e.pre.minimap_scale_factor # MinRatio(e.post.canvas_destinations)

\* the statement with "or": after every recompute the stored minimap scale
\* factor is the fit factor of the current minimap rectangles
ScaleFactorCurrent ==
    (Len(hist) >= 1 /\ Projected(hist[1])) =>
        hist[1].post.minimap_scale_factor = MinRatio(hist[1].post.canvas_destinations)

(***************************************************************************)
(* C24: in a minimap recompute the layer rectangles are always projected;  *)
(* the cached minimap bitmaps are regenerated and the stored minimap scale *)
(* factor is updated exactly when the handler asked for a resize (add,     *)
(* duplicate, remove, zoom) and the new fit factor differs from the stored *)
(* one; otherwise the stored factor and the cached bitmaps are left as     *)
(* they were.                                                              *)
(***************************************************************************)
ResampleWhenResized ==
    (Len(hist) >= 1 /\ Projected(hist[1])) =>
        /\ \A k \in 1..Len(hist[1].post.canvas_destinations) :
               hist[1].post.minimap_destinations[k] =
                   Mini(hist[1].post.canvas_destinations,
                        hist[1].post.canvas_destinations[k])
        /\ Regenerates(hist[1]) =>
               /\ hist[1].post.minimap_scale_factor =
                      MinRatio(hist[1].post.canvas_destinations)
               /\ \A q \in DOMAIN hist[1].post.bitmaps :
                      /\ q \in DOMAIN hist[1].post.minimap_bitmaps
                      /\ hist[1].post.minimap_bitmaps[q] =
                             Resampled(hist[1].post.bitmaps[q],
                                       MinRatio(hist[1].post.canvas_destinations))
        /\ ~Regenerates(hist[1]) =>
               /\ hist[1].post.minimap_scale_factor = hist[1].pre.minimap_scale_factor
               /\ \A q \in DOMAIN hist[1].pre.minimap_bitmaps
                           \cap DOMAIN hist[1].post.minimap_bitmaps :
                      hist[1].post.minimap_bitmaps[q] = hist[1].pre.minimap_bitmaps[q]

\* a drag changed the fit factor: the rectangles are projected with the new
\* factor, the stored factor is the old one
DraggedToNewFactor ==
    /\ Last("drag")
    /\ Projected(hist[1])
    /\ minimap_destinations = hist[1].post.minimap_destinations
    /\ Len(canvas_destinations) = 2
    /\ MinRatio(canvas_destinations) # MinRatio(hist[1].pre.canvas_destinations)
    /\ minimap_scale_factor = MinRatio(hist[1].pre.canvas_destinations)

\* the selected layer, whose image is loaded, was removed
RemovedLoaded(e) ==
    /\ e.op = "remove"
    /\ SelValid(e)
    /\ SelData(e) \in DOMAIN e.pre.paths
    /\ e.pre.paths[SelData(e)] \in DOMAIN e.pre.bitmaps
    /\ e.pre.paths[SelData(e)] \in DOMAIN e.pre.canvas_bitmaps
    /\ e.pre.paths[SelData(e)] \in DOMAIN e.pre.minimap_bitmaps

\* the path of the removed layer
RemovedPath(e) == e.pre.paths[SelData(e)]

\* a layer that is still in the list uses the path of the removed layer
StillReferenced(e) ==
    \E i \in 1..Len(e.post.layers) :
        /\ e.post.layers[i].data \in DOMAIN e.pre.paths
        /\ e.post.layers[i].data # SelData(e)
        /\ e.pre.paths[e.post.layers[i].data] = RemovedPath(e)

\* the path is in the cache of the main window, of the canvas and of the
\* minimap, or in none of them
Cached(s, path) ==
    /\ path \in DOMAIN s.bitmaps
    /\ path \in DOMAIN s.canvas_bitmaps
    /\ path \in DOMAIN s.minimap_bitmaps

Evicted(s, path) ==
    /\ path \notin DOMAIN s.bitmaps
    /\ path \notin DOMAIN s.canvas_bitmaps
    /\ path \notin DOMAIN s.minimap_bitmaps

(***************************************************************************)
(* C25: removing a layer evicts the cached bitmap of its path from the     *)
(* main, canvas and minimap caches if and only if no remaining layer uses  *)
(* that path.                                                              *)
(***************************************************************************)
EvictsUnreferenced ==
    (Len(hist) >= 1 /\ RemovedLoaded(hist[1])) =>
        IF StillReferenced(hist[1])
        THEN Cached(hist[1].post, RemovedPath(hist[1]))
        ELSE Evicted(hist[1].post, RemovedPath(hist[1]))

(***************************************************************************)
(* C26: starting from reset, no handler of a user action terminates with   *)
(* an unhandled error.                                                     *)
(***************************************************************************)
NoUnhandledError == err = "none"

(***************************************************************************)
(* C27: for a rectangle set of length n and 0 <= k <= n,                   *)
(* insert(-(k+1), rect) places rect at the position k from the end of the  *)
(* result: get(-(k+1)) on the result returns rect, and the other           *)
(* rectangles keep their relative order.                                   *)
(***************************************************************************)
InsertedFromEnd(e) ==
    /\ e.op = "insert"
    /\ e.arg[1] < 0
    /\ -e.arg[1] - 1 <= Len(e.pre.destinations)

InsertFromEnd ==
    (Len(hist) >= 1 /\ InsertedFromEnd(hist[1])) =>
        /\ hist[1].post.err = "none"
        /\ Len(hist[1].post.destinations) = Len(hist[1].pre.destinations) + 1
        /\ RectsGet(hist[1].post.destinations, hist[1].arg[1]) = hist[1].arg[2]
        /\ RectsDelete(hist[1].post.destinations, hist[1].arg[1])
               = hist[1].pre.destinations

(***************************************************************************)
(* C28: for every rectangle set and every index that insert accepts,       *)
(* negative or not, insert(index, rect) followed by delete(index) with the *)
(* same index yields the original set.                                     *)
(***************************************************************************)
InsertedThenDeleted ==
    /\ Last("delete")
    /\ Before("insert")
    /\ hist[2].post.err = "none"
    /\ hist[1].arg = hist[2].arg[1]

InsertDeleteRoundTrip ==
    InsertedThenDeleted =>
        /\ hist[1].post.err = "none"
        /\ hist[1].post.destinations = hist[2].pre.destinations

\* seq with the entries at the positions i and j, counted from the end,
\* exchanged
Exchanged(seq, i, j) ==
    [p \in 1..Len(seq) |->
        IF p = Len(seq) - i THEN seq[Len(seq) - j]
        ELSE IF p = Len(seq) - j THEN seq[Len(seq) - i]
        ELSE seq[p]]

ExchangedIn(e, f) ==
    /\ e.arg[1] < Len(e.pre[f])
    /\ e.arg[2] < Len(e.pre[f])
    /\ e.post[f] = Exchanged(e.pre[f], e.arg[1], e.arg[2])

\* the state s with order, visibility and rectangles of canvas and minimap
\* taken from t
WithLayersOf(s, t) ==
    [s EXCEPT !.canvas_order = t.canvas_order,
              !.canvas_visibility = t.canvas_visibility,
              !.canvas_destinations = t.canvas_destinations,
              !.minimap_order = t.minimap_order,
              !.minimap_visibility = t.minimap_visibility,
              !.minimap_destinations = t.minimap_destinations]

\* a swap event for two positions of the layer stack
SwappedPositions(e) ==
    /\ e.op = "swap"
    /\ e.arg[1] < Len(e.pre.canvas_order)
    /\ e.arg[2] < Len(e.pre.canvas_order)

(***************************************************************************)
(* C29: the swap of the positions i and j exchanges the id, the visibility *)
(* flag, the canvas rectangle and the minimap rectangle of those two       *)
(* positions in one handler, leaves every other position and everything    *)
(* else as it was, and changes nothing when i = j.                         *)
(***************************************************************************)
SwapExchanges ==
    (Len(hist) >= 1 /\ SwappedPositions(hist[1])) =>
        /\ hist[1].post.err = "none"
        /\ ExchangedIn(hist[1], "canvas_order")
        /\ ExchangedIn(hist[1], "canvas_visibility")
        /\ ExchangedIn(hist[1], "canvas_destinations")
        /\ ExchangedIn(hist[1], "minimap_order")
        /\ ExchangedIn(hist[1], "minimap_visibility")
        /\ ExchangedIn(hist[1], "minimap_destinations")
        /\ hist[1].post = WithLayersOf(Begin(hist[1].pre), hist[1].post)
        /\ hist[1].arg[1] = hist[1].arg[2] => hist[1].post = Begin(hist[1].pre)

\* two layers that differ in id, flag and rectangles were swapped
SwappedTwoLayers ==
    /\ Len(hist) >= 1
    /\ SwappedPositions(hist[1])
    /\ hist[1].arg[1] # hist[1].arg[2]
    /\ hist[1].post.err = "none"
    /\ hist[1].post.canvas_order # hist[1].pre.canvas_order
    /\ hist[1].post.canvas_visibility # hist[1].pre.canvas_visibility
    /\ hist[1].post.canvas_destinations # hist[1].pre.canvas_destinations
    /\ hist[1].post.minimap_order # hist[1].pre.minimap_order
    /\ hist[1].post.minimap_visibility # hist[1].pre.minimap_visibility
    /\ hist[1].post.minimap_destinations # hist[1].pre.minimap_destinations

\* the entries of seq that were there when it had n entries
Existing(seq, n) == SubSeq(seq, 1, n)

\* the unscaled rectangle of an image of the given size
ImageRect(size) == Rect(Q(0), Q(0), Q(size[1]), Q(size[2]))

(***************************************************************************)
(* C30: the add of an image of size (width, height) appends the new id at  *)
(* the end of order, records the unscaled rectangle Rect(0, 0, width,      *)
(* height) for it, and leaves id, relative order, visibility flag and      *)
(* canvas rectangle of every existing layer as they were, also once the    *)
(* posted events are handled.                                              *)
(***************************************************************************)
AddAppends ==
    Last("add") =>
        /\ hist[1].post.canvas_order
               = Append(hist[1].pre.canvas_order, hist[1].pre.counter)
        /\ hist[1].post.destinations
               = Append(hist[1].pre.destinations, ImageRect(hist[1].arg))
        /\ Existing(hist[1].post.canvas_visibility, Len(hist[1].pre.canvas_visibility))
               = hist[1].pre.canvas_visibility
        /\ Existing(hist[1].post.canvas_destinations, Len(hist[1].pre.canvas_destinations))
               = hist[1].pre.canvas_destinations
        /\ (queue = <<>> /\ err = "none") =>
               /\ canvas_order = hist[1].post.canvas_order
               /\ Existing(canvas_visibility, Len(hist[1].pre.canvas_visibility))
                      = hist[1].pre.canvas_visibility
               /\ Existing(canvas_destinations, Len(hist[1].pre.canvas_destinations))
                      = hist[1].pre.canvas_destinations

\* a second image is added to a zoomed canvas and the posted events are
\* handled: its canvas rectangle is scaled, the recorded one is not
AddedToZoomed ==
    /\ Last("add")
    /\ queue = <<>>
    /\ err = "none"
    /\ Len(hist[1].pre.canvas_order) >= 1
    /\ hist[1].pre.canvas_scale_factor # Q(1)
    /\ Len(canvas_order) = Len(hist[1].pre.canvas_order) + 1
    /\ Len(canvas_destinations) = Len(canvas_order)
    /\ canvas_destinations[Len(canvas_destinations)] # ImageRect(hist[1].arg)
    /\ destinations[Len(destinations)] = ImageRect(hist[1].arg)
    /\ canvas_visibility[Len(canvas_visibility)]

\* every id of order has a path, and every such path has a bitmap
Resolves(order, pths, bmps) ==
    \A p \in 1..Len(order) :
        /\ order[p] \in DOMAIN pths
        /\ pths[order[p]] \in DOMAIN bmps

(***************************************************************************)
(* C31: after any sequence of add, duplicate, remove and move operations,  *)
(* every id of canvas.order and of minimap.order is a key of the paths of  *)
(* its view, and its path is a key of the bitmaps of its view.             *)
(***************************************************************************)
OrderResolves ==
    /\ Resolves(canvas_order, canvas_paths, canvas_bitmaps)
    /\ Resolves(minimap_order, minimap_paths, minimap_bitmaps)

(***************************************************************************)
(* C32: after every completed handler the canvas and the minimap hold the  *)
(* same order and the same visibility flags.                               *)
(***************************************************************************)
ViewsAgree ==
    /\ canvas_order = minimap_order
    /\ canvas_visibility = minimap_visibility

\* the layers of state s have the flags they have in state t
SameFlags(s, t) ==
    /\ Len(s.canvas_visibility) = Len(s.canvas_order)
    /\ Len(t.canvas_visibility) = Len(t.canvas_order)
    /\ \A p \in 1..Len(t.canvas_order) :
           /\ Has(s.canvas_order, t.canvas_order[p])
           /\ FlagOf(s.canvas_order, s.canvas_visibility, t.canvas_order[p])
                  = t.canvas_visibility[p]

(***************************************************************************)
(* C33: a move forward or backward changes no layer's visibility: once the *)
(* events it posted, the check of the re-inserted item and the swap, are   *)
(* handled in the order of posting, every layer id has the flag it had     *)
(* before the move.                                                        *)
(***************************************************************************)
MoveKeepsVisibility ==
    (Len(hist) >= 1 /\ Swapped(hist[1]) /\ queue = <<>>) =>
        /\ err = "none"
        /\ SameFlags(Cur, hist[1].pre)

\* the check box of the item at list position p is the flag of its layer
BoxIsFlag(p) ==
    /\ Has(canvas_order, layers[p].data)
    /\ Len(canvas_visibility) = Len(canvas_order)
    /\ layers[p].checked = FlagOf(canvas_order, canvas_visibility, layers[p].data)

(***************************************************************************)
(* C34: whenever no posted event is pending, the check box of the list     *)
(* item at every position is the visibility flag of the layer with the     *)
(* item's id; a layer just added is checked and visible.                   *)
(***************************************************************************)
BoxesShowVisibility ==
    queue = <<>> => \A p \in 1..Len(layers) : BoxIsFlag(p)

\* the rectangle m lies inside the viewport of the minimap
InViewport(m) ==
    /\ ~RLess(m.x, Q(0))
    /\ ~RLess(m.y, Q(0))
    /\ ~RLess(Q(MinimapSize), RAdd(m.x, m.w))
    /\ ~RLess(Q(MinimapSize), RAdd(m.y, m.h))

\* the bounding box of the rectangles cd has a width and a height
NonDegenerate(cd) ==
    /\ RLess(Q(0), BBoxW(cd))
    /\ RLess(Q(0), BBoxH(cd))

PannedLayers(e) ==
    /\ e.op = "pan"
    /\ Len(e.pre.canvas_destinations) >= 1

(***************************************************************************)
(* C36: a pan by any (dx, dy) leaves the projected layer rectangles of the *)
(* minimap and the fit factor as they were before it.                      *)
(***************************************************************************)
PanKeepsProjection ==
    (Len(hist) >= 1 /\ PannedLayers(hist[1])) =>
        /\ hist[1].post.err = "none"
        /\ hist[1].post.minimap_destinations = hist[1].pre.minimap_destinations
        /\ hist[1].post.minimap_scale_factor = hist[1].pre.minimap_scale_factor
        /\ FitFactor(hist[1].post.canvas_destinations)
               = FitFactor(hist[1].pre.canvas_destinations)

\* New or Quit was chosen while the map was not saved, and the user
\* answers no
Declined(e) ==
    /\ e.op \in {"new", "quit"}
    /\ ~e.pre.saved
    /\ ~Continue(e.pre, e.arg)

(***************************************************************************)
(* C37: when the map is not saved, New and Quit ask for a confirmation,    *)
(* and when the user answers no the action is abandoned: layers, counter   *)
(* and destinations are unchanged and the window is not closed.            *)
(***************************************************************************)
DeclinedIsAbandoned ==
    (Len(hist) >= 1 /\ Declined(hist[1])) =>
        /\ hist[1].post.layers = hist[1].pre.layers
        /\ hist[1].post.counter = hist[1].pre.counter
        /\ hist[1].post.destinations = hist[1].pre.destinations
        /\ hist[1].post.closed = hist[1].pre.closed

====
